---------------------------- MODULE Spec2Model ----------------------------
(***************************************************************************)
(* A model of the focus plugin (moonxorsun/focus-claude-code):             *)
(*   - the three-strike failure counter of the post-action hook            *)
(*     (focus_hook.py: detect_failure, get_operation_key,                  *)
(*     check_and_update_strikes),                                          *)
(*   - the persistent state store (focus_core.py: load_json_file,          *)
(*     atomic_write_json) on a file system with inodes and rename,         *)
(*   - the operation log (focus_hook.py: record_operation; focus_core.py:  *)
(*     load_operations; checkpoint_session.py: remove_processed_sessions,  *)
(*     get_sessions_to_process, main),                                     *)
(*   - the transcript extractor and the budget allocator                   *)
(*     (recover_context.py: filter_session_from_end,                       *)
(*     dual_source_recovery).                                              *)
(* Each part has its own specification over the shared variables; the      *)
(* variables of the other parts stay at their idle values.                 *)
(***************************************************************************)
EXTENDS Integers, Sequences, FiniteSets, TLC

VARIABLES
    \* ---- strike engine (failure_count.json and one post hook call) ----
    failure_counts,   \* content of FAILURE_COUNT_FILE: key -> [count, last_error]
    max_strikes,      \* START_CONFIG["max_strikes"] as loaded by main()
    observed,         \* history: key -> sequence of classified outcomes
    last_post,        \* history: the last post hook call and what it emitted
    posts,            \* history: number of post hook calls so far
    striker,          \* per overlapping post hook call: position and locals
    conf,             \* confirm_state.json and the last hook that used it
    \* ---- persistent state store (one JSON state file) ----
    dir_exists,       \* the parent directory of the state file exists
    target,           \* inode the state file's name points to, 0 when absent
    inodes,           \* inode -> bytes written to it so far
    tmp_names,        \* temp files (inodes) that have a name in the directory
    saver,            \* per atomic_write_json call: position, data, temp inode
    loader,           \* the load_json_file call: position, inode, bytes, result
    loads,            \* history: number of load_json_file calls started
    \* ---- operation log (operations.jsonl) and the checkpoint ----
    log_target,       \* inode the log's name points to, 0 when absent
    log_inodes,       \* inode -> lines written to it so far
    transcripts,      \* session ids whose transcript file exists
    project_dir,      \* the Claude project directory exists
    clock,            \* datetime.now(), as a counter
    hook,             \* per record_operation call: position, record, text read
    ckpt,             \* the checkpoint / prune call: position and locals
    reader,           \* the load_operations call of a reader
    reads,            \* history: number of reader calls started
    written,          \* history: the complete contents writers set out to write
    \* ---- transcript extractor and budget allocator ----
    fx,               \* filter_session_from_end: arguments, locals, result
    dsr,              \* dual_source_recovery: configuration, sessions, locals
    \* ---- constraint rules and the pre-action hook ----
    pre,              \* one PreToolUse invocation: inputs, position, output
    \* ---- one hook process of any type ----
    proc,             \* one focus_hook.py process: inputs, position, output
    \* ---- reminders ----
    rem               \* reminder_state.json, the clock and the last call

strikeVars == <<failure_counts, max_strikes, observed, last_post, posts, striker, conf>>
storeVars == <<dir_exists, target, inodes, tmp_names, saver, loader, loads>>

logVars == <<log_target, log_inodes, transcripts, project_dir, clock, hook, ckpt,
             reader, reads, written>>

recoverVars == <<fx, dsr>>
constraintVars == <<pre>>
processVars == <<proc>>

reminderVars == <<rem>>

vars == <<strikeVars, storeVars, logVars, recoverVars, constraintVars, processVars,
          reminderVars>>

\* What the operations of one part leave alone: the other parts.
notStrike == <<processVars, reminderVars, storeVars, logVars, recoverVars, constraintVars>>
notStore == <<processVars, reminderVars, strikeVars, logVars, recoverVars, constraintVars>>
notLog == <<processVars, reminderVars, strikeVars, storeVars, recoverVars, constraintVars>>
notRecover == <<processVars, reminderVars, strikeVars, storeVars, logVars, constraintVars>>
notConstraint == <<strikeVars, storeVars, logVars, recoverVars, processVars, reminderVars>>
notProcess == <<strikeVars, storeVars, logVars, recoverVars, constraintVars, reminderVars>>
notReminder == <<strikeVars, storeVars, logVars, recoverVars, constraintVars, processVars>>

-----------------------------------------------------------------------------
(* Values shared by all parts *)

\* Python's None, and a field that is absent from a mapping.
NoneVal == "<None>"

Min(a, b) == IF a < b THEN a ELSE b
Max(a, b) == IF a > b THEN a ELSE b

IsSpace(c) == c \in {" ", "\n", "\t", "\r"}

RECURSIVE LStrip(_)
LStrip(s) == IF Len(s) > 0 /\ IsSpace(Head(s)) THEN LStrip(Tail(s)) ELSE s

RECURSIVE RStrip(_)
RStrip(s) == IF Len(s) > 0 /\ IsSpace(SubSeq(s, Len(s), Len(s)))
             THEN RStrip(SubSeq(s, 1, Len(s) - 1)) ELSE s

\* str.strip()
Strip(s) == RStrip(LStrip(s))

\* s[:n]
Take(s, n) == SubSeq(s, 1, Min(n, Len(s)))

\* s[a:b] with 0-based a, b >= 0 (Python slice, clipped to the string)
Slice(s, a, b) == SubSeq(s, Min(a, Len(s)) + 1, Min(b, Len(s)))

\* pattern in s
Contains(pattern, s) ==
    \E i \in 1..(Len(s) - Len(pattern) + 1) :
        SubSeq(s, i, i + Len(pattern) - 1) = pattern

\* x in list
InList(x, list) == \E i \in 1..Len(list) : list[i] = x

\* s.find(pattern), 0-based, for a pattern that occurs in s
Find(pattern, s) ==
    (CHOOSE i \in 1..(Len(s) - Len(pattern) + 1) :
        /\ SubSeq(s, i, i + Len(pattern) - 1) = pattern
        /\ \A j \in 1..(i - 1) : SubSeq(s, j, j + Len(pattern) - 1) # pattern) - 1

LowerChar(c) ==
    CASE c = "A" -> "a" [] c = "B" -> "b" [] c = "C" -> "c" [] c = "D" -> "d"
      [] c = "E" -> "e" [] c = "F" -> "f" [] c = "G" -> "g" [] c = "H" -> "h"
      [] c = "I" -> "i" [] c = "J" -> "j" [] c = "K" -> "k" [] c = "L" -> "l"
      [] c = "M" -> "m" [] c = "N" -> "n" [] c = "O" -> "o" [] c = "P" -> "p"
      [] c = "Q" -> "q" [] c = "R" -> "r" [] c = "S" -> "s" [] c = "T" -> "t"
      [] c = "U" -> "u" [] c = "V" -> "v" [] c = "W" -> "w" [] c = "X" -> "x"
      [] c = "Y" -> "y" [] c = "Z" -> "z" [] OTHER -> c

RECURSIVE Lower(_)
\* str.lower()
Lower(s) == IF Len(s) = 0 THEN "" ELSE LowerChar(Head(s)) \o Lower(Tail(s))

-----------------------------------------------------------------------------
(* Strike engine: focus_hook.py *)

\* START_CONFIG["error_patterns"]: the substrings that mark a failure.
ERROR_PATTERNS == <<"error", "failed">>

\* START_CONFIG.get("max_strikes", 3)
MAX_STRIKES_DEFAULT == 3

\* The snippet bounds of detect_failure.
ErrorSnippetLen == 120
SnippetBefore == 20
SnippetAfter == 100
\* command[:50] in get_operation_key
KeyCommandLen == 50

\* Bound: number of post hook calls explored.
MaxPosts == 4
\* Bound: the largest configured max_strikes explored (the smallest is 2).
MaxStrikesCfg == 4

\* A tool response: a mapping (shape "dict") with an error field and a
\* result body, a plain string (shape "str", the text in body), or None.
Response(shape, error, body) == [shape |-> shape, error |-> error, body |-> body]

ToolResponses ==
    { Response("none", NoneVal, NoneVal),
      Response("dict", NoneVal, NoneVal),                       \* {}
      Response("dict", NoneVal, "print('Error: x')"),           \* file content
      Response("dict", "", "build failed"),
      Response("dict", "Error: no such file", NoneVal),
      Response("dict", "exit status 1", "x"),                   \* no pattern
      Response("str", NoneVal, "done"),
      Response("str", NoneVal, "the step FAILED here") }

\* bool(tool_response)
ResponseTruthy(r) ==
    CASE r.shape = "none" -> FALSE
      [] r.shape = "dict" -> r.error # NoneVal \/ r.body # NoneVal
      [] r.shape = "str" -> Len(r.body) > 0

\* The first pattern of ERROR_PATTERNS, in list order, that occurs in s.
FirstPattern(s) ==
    ERROR_PATTERNS[CHOOSE i \in 1..Len(ERROR_PATTERNS) :
        /\ Contains(ERROR_PATTERNS[i], s)
        /\ \A j \in 1..(i - 1) : ~Contains(ERROR_PATTERNS[j], s)]

AnyPattern(s) == \E i \in 1..Len(ERROR_PATTERNS) : Contains(ERROR_PATTERNS[i], s)

NotFailure == [is_failure |-> FALSE, snippet |-> NoneVal]

\* A plausible slip: the mapping branch scans the result body too.
detect_failure_scans_body(tool_response) ==
    IF ~ResponseTruthy(tool_response) THEN NotFailure
    ELSE LET text == Lower((IF tool_response.error = NoneVal THEN "" ELSE tool_response.error)
                           \o (IF tool_response.body = NoneVal THEN "" ELSE tool_response.body))
         IN  IF AnyPattern(text)
             THEN [is_failure |-> TRUE, snippet |-> Take(text, ErrorSnippetLen)]
             ELSE NotFailure

detect_failure(tool_response) ==
    IF ~ResponseTruthy(tool_response) THEN NotFailure
    ELSE IF tool_response.shape = "dict"
    THEN LET error_field == tool_response.error IN
         IF error_field = NoneVal \/ Len(error_field) = 0 THEN NotFailure
         ELSE LET error_str == Lower(error_field) IN
              IF AnyPattern(error_str)
              THEN [is_failure |-> TRUE, snippet |-> Take(error_str, ErrorSnippetLen)]
              ELSE NotFailure
    ELSE LET response_str == Lower(tool_response.body) IN
         IF AnyPattern(response_str)
         THEN LET idx == Find(FirstPattern(response_str), response_str) IN
              [is_failure |-> TRUE,
               snippet |-> Slice(response_str, Max(0, idx - SnippetBefore), idx + SnippetAfter)]
         ELSE NotFailure

\* A tool input: a mapping with optional file_path, path and command, or
\* something that is not a mapping.
ToolInput(isdict, file_path, path, command) ==
    [isdict |-> isdict, file_path |-> file_path, path |-> path, command |-> command]

\* x or y
Truthy(s) == s # NoneVal /\ Len(s) > 0

get_operation_key(tool_name, tool_input) ==
    LET file_path ==
            IF ~tool_input.isdict THEN NoneVal
            ELSE IF Truthy(tool_input.file_path) THEN tool_input.file_path
            ELSE IF Truthy(tool_input.path) THEN tool_input.path
            ELSE IF tool_input.command = NoneVal THEN ""
            ELSE Take(tool_input.command, KeyCommandLen)
    IN  tool_name \o ":" \o (IF Truthy(file_path) THEN file_path ELSE "unknown")

\* The (tool_name, tool_input) pairs the host sends.
ToolCalls ==
    { <<"Write", ToolInput(TRUE, "/a.py", NoneVal, NoneVal)>>,
      <<"Write", ToolInput(TRUE, "", "/a.py", NoneVal)>>,
      <<"Bash", ToolInput(TRUE, NoneVal, NoneVal, "make test")>>,
      <<"Bash", ToolInput(FALSE, NoneVal, NoneVal, "make test")>> }

\* The classification and the key of every input, computed once.
Detected == [r \in ToolResponses |-> detect_failure(r)]
KeyOf == [c \in ToolCalls |-> get_operation_key(c[1], c[2])]

OpKeys == { KeyOf[c] : c \in ToolCalls }

\* The strike messages of check_and_update_strikes.
MsgDiagnose == "STRIKE 1/3: Diagnose & Fix the issue"
MsgAlternative == "STRIKE 2/3: MUST use Alternative Approach"
MsgEscalate == "STRIKE 3/3: ESCALATE TO USER"

\* counts after the failure branch: the key's count incremented by one.
CountsAfterFailure(counts, op_key, error_snippet) ==
    LET old == IF op_key \in DOMAIN counts THEN counts[op_key].count ELSE 0
        entry == [count |-> old + 1,
                  last_error |-> IF error_snippet = NoneVal THEN "" ELSE error_snippet]
    IN  [k \in DOMAIN counts \cup {op_key} |-> IF k = op_key THEN entry ELSE counts[k]]

\* A plausible slip: a success leaves the entry in place.
CountsAfterSuccessKeeps(counts, op_key) == counts

\* counts after the success branch: the key removed.
CountsAfterSuccess(counts, op_key) ==
    [k \in DOMAIN counts \ {op_key} |-> counts[k]]

\* The message for the strike count reached; NoneVal when no branch matches.
StrikeMessage(strike, MAX_STRIKES) ==
    IF strike = 1 THEN MsgDiagnose
    ELSE IF strike = 2 THEN MsgAlternative
    ELSE IF strike >= MAX_STRIKES THEN MsgEscalate
    ELSE NoneVal

StrikeInit ==
    /\ failure_counts = << >>
    /\ max_strikes \in 2..MaxStrikesCfg
    /\ observed = [k \in OpKeys |-> << >>]
    /\ last_post = [op_key |-> NoneVal, response |-> Response("none", NoneVal, NoneVal),
                    is_failure |-> FALSE, strike_msg |-> NoneVal]
    /\ posts = 0
    /\ striker = << >>
    /\ conf = << >>

\* main(), --hook post with stdin data and an active focus session: the
\* 3-strike protocol, check_and_update_strikes(tool_name, tool_input,
\* tool_response), whose message main() passes to output_message.
check_and_update_strikes(tool_name, tool_input, tool_response) ==
    LET d == Detected[tool_response]
        op_key == KeyOf[<<tool_name, tool_input>>]
        counts == failure_counts
        after == IF d.is_failure
                 THEN CountsAfterFailure(counts, op_key, d.snippet)
                 ELSE CountsAfterSuccess(counts, op_key)
        msg == IF d.is_failure
               THEN StrikeMessage(after[op_key].count, max_strikes)
               ELSE NoneVal
    IN  /\ posts < MaxPosts
        /\ failure_counts' = after
        /\ observed' = [observed EXCEPT ![op_key] = Append(@, d.is_failure)]
        /\ last_post' = [op_key |-> op_key, response |-> tool_response,
                         is_failure |-> d.is_failure, strike_msg |-> msg]
        /\ posts' = posts + 1
        /\ UNCHANGED <<max_strikes, striker, conf, notStrike>>

PostToolUse ==
    \E c \in ToolCalls, r \in ToolResponses : check_and_update_strikes(c[1], c[2], r)

StrikeNext == PostToolUse

\* The post hook invocations that can be in flight at the same time.
Strikers == {1, 2}

StrikerIdle ==
    [pc |-> "idle", op_key |-> NoneVal, is_failure |-> FALSE, snippet |-> NoneVal,
     counts |-> << >>, at |-> 0, left |-> NoneVal]

\* The responses of the overlapping invocations: a success and a failure.
OverlapResponses ==
    { Response("str", NoneVal, "done"), Response("dict", "Error: no such file", NoneVal) }

\* Overlapping post hook invocations on an empty failure-count file.
OverlapInit ==
    /\ failure_counts = << >>
    /\ max_strikes = MAX_STRIKES_DEFAULT
    /\ observed = [k \in OpKeys |-> << >>]
    /\ last_post = << >>
    /\ posts = 0
    /\ striker = [i \in Strikers |-> StrikerIdle]
    /\ conf = << >>

\* A post hook invocation starts: is_failure, error_snippet =
\* detect_failure(tool_response); op_key = get_operation_key(...).
StrikeBegin(i) ==
    /\ striker[i].pc \in {"idle", "done"}
    /\ posts < MaxPosts
    /\ \E c \in ToolCalls, r \in OverlapResponses :
        striker' = [striker EXCEPT ![i] =
            [StrikerIdle EXCEPT !.pc = "start", !.op_key = KeyOf[c],
                                !.is_failure = Detected[r].is_failure,
                                !.snippet = Detected[r].snippet]]
    /\ posts' = posts + 1
    /\ UNCHANGED <<failure_counts, max_strikes, observed, last_post, conf, notStrike>>

\* counts = load_failure_counts()
StrikeLoad(i) ==
    /\ striker[i].pc = "start"
    /\ striker' = [striker EXCEPT ![i].pc = "loaded", ![i].counts = failure_counts]
    /\ UNCHANGED <<failure_counts, max_strikes, observed, last_post, posts, conf, notStrike>>

\* The entry of a key in a counts map, NoneVal when the key is absent.
EntryIn(counts, k) == IF k \in DOMAIN counts THEN counts[k] ELSE NoneVal

\* The rest of check_and_update_strikes on the counts it loaded: a failure
\* increments the key and saves; a success deletes the key and saves when
\* the key was there; save_failure_counts replaces the file in one rename.
StrikeSave(i) ==
    /\ striker[i].pc = "loaded"
    /\ LET me == striker[i]
           after == IF me.is_failure
                    THEN CountsAfterFailure(me.counts, me.op_key, me.snippet)
                    ELSE CountsAfterSuccess(me.counts, me.op_key)
           saves == me.is_failure \/ me.op_key \in DOMAIN me.counts
           stored == IF saves THEN after ELSE failure_counts
       IN  /\ failure_counts' = stored
           /\ observed' = [observed EXCEPT ![me.op_key] = Append(@, me.is_failure)]
           /\ striker' = [striker EXCEPT ![i].pc = "done",
                              ![i].at = 1 + Len(observed[me.op_key]),
                              ![i].left = EntryIn(stored, me.op_key)]
    /\ UNCHANGED <<max_strikes, last_post, posts, conf, notStrike>>

OverlapNext == \E i \in Strikers : StrikeBegin(i) \/ StrikeLoad(i) \/ StrikeSave(i)

-----------------------------------------------------------------------------
(* Read before decide: the confirmation state of focus_hook.py *)

UpperChar(c) ==
    CASE c = "a" -> "A" [] c = "b" -> "B" [] c = "c" -> "C" [] c = "d" -> "D"
      [] c = "e" -> "E" [] c = "f" -> "F" [] c = "g" -> "G" [] c = "h" -> "H"
      [] c = "i" -> "I" [] c = "j" -> "J" [] c = "k" -> "K" [] c = "l" -> "L"
      [] c = "m" -> "M" [] c = "n" -> "N" [] c = "o" -> "O" [] c = "p" -> "P"
      [] c = "q" -> "Q" [] c = "r" -> "R" [] c = "s" -> "S" [] c = "t" -> "T"
      [] c = "u" -> "U" [] c = "v" -> "V" [] c = "w" -> "W" [] c = "x" -> "X"
      [] c = "y" -> "Y" [] c = "z" -> "Z" [] OTHER -> c

RECURSIVE Upper(_)
\* str.upper()
Upper(s) == IF Len(s) = 0 THEN "" ELSE UpperChar(Head(s)) \o Upper(Tail(s))

\* Bound: number of hook invocations that use the confirmation state.
MaxConfirmHooks == 3

\* The files the edits are about.
ConfirmFiles == {"/a.py", "/b.py"}

\* What the classifier replies when the API call returns text.
AnswerTexts == {"YES", "NO", " yes\n", "No.", "The answer is NO, not YES"}

\* What check_user_confirmation meets: the anthropic module cannot be
\* imported, the transcript gave no messages, the API call raises, the
\* response has no content, or the response has one of the texts.
ConfirmOutcomes == {"unavailable", "no_messages", "raises", "empty"} \cup AnswerTexts

\* confirmed = "YES" in result_text and "NO" not in result_text[:3], with
\* result_text = response.content[0].text.strip().upper()
ParsedConfirmed(text) ==
    LET result_text == Upper(Strip(text)) IN
    Contains("YES", result_text) /\ ~Contains("NO", Take(result_text, 3))

\* check_user_confirmation: <<allowed, should_record>>; (True, False) when
\* the module is missing, there are no messages, the response is empty or
\* the call raises; else (confirmed, confirmed).
check_user_confirmation(outcome) ==
    IF outcome \in AnswerTexts
    THEN <<ParsedConfirmed(outcome), ParsedConfirmed(outcome)>>
    ELSE <<TRUE, FALSE>>

NoHook ==
    [hook |-> "none", focus_session_active |-> FALSE, current_file |-> NoneVal,
     outcome |-> NoneVal, before |-> << >>, consulted |-> FALSE, decision |-> "none",
     exit_code |-> 0]

\* A focus session with an empty confirm_state.json.
ConfirmInit ==
    /\ failure_counts = << >>
    /\ max_strikes = MAX_STRIKES_DEFAULT
    /\ observed = << >>
    /\ last_post = << >>
    /\ posts = 0
    /\ striker = << >>
    /\ conf = [confirmed_files |-> << >>, last |-> NoHook, hooks |-> 0]

\* save_confirm_state(state): atomic_write_json; an exception of the write
\* is logged and the file keeps its content.
SavedConfirmState(confirmed_files, write_fails) ==
    IF write_fails THEN conf.confirmed_files ELSE confirmed_files

\* main, --hook user: nothing without an active focus session; else
\* reset_confirm_state(), which saves {"confirmed_files": []}.
ResetOnUserPrompt ==
    /\ conf.hooks < MaxConfirmHooks
    /\ \E focus_session_active \in BOOLEAN, write_fails \in BOOLEAN :
        conf' = [confirmed_files |->
                    IF focus_session_active THEN SavedConfirmState(<< >>, write_fails)
                    ELSE conf.confirmed_files,
                 last |-> [NoHook EXCEPT !.hook = "user",
                              !.focus_session_active = focus_session_active,
                              !.before = conf.confirmed_files],
                 hooks |-> conf.hooks + 1]
    /\ UNCHANGED <<failure_counts, max_strikes, observed, last_post, posts, striker,
                   notStrike>>

\* main, --hook pre on a Write or Edit with the classifier mode on:
\* handle_confirm_before_modify loads the state; a file of the list is
\* allowed at once; else check_user_confirmation decides: allowed and
\* recorded, allowed, or denied with exit status 1.
ConfirmPreToolUse ==
    /\ conf.hooks < MaxConfirmHooks
    /\ \E focus_session_active \in BOOLEAN, write_fails \in BOOLEAN,
          current_file \in ConfirmFiles, outcome \in ConfirmOutcomes :
        LET confirmed_files == conf.confirmed_files
            listed == InList(current_file, confirmed_files)
            answer == check_user_confirmation(outcome)
            allowed == answer[1]
            should_record == answer[2]
            ran == focus_session_active /\ ~listed
        IN  conf' = [confirmed_files |->
                        IF ran /\ allowed /\ should_record
                        THEN SavedConfirmState(Append(confirmed_files, current_file),
                                               write_fails)
                        ELSE confirmed_files,
                     last |-> [hook |-> "pre",
                               focus_session_active |-> focus_session_active,
                               current_file |-> current_file, outcome |-> outcome,
                               before |-> confirmed_files,
                               consulted |-> ran /\ outcome \notin {"unavailable", "no_messages"},
                               decision |-> IF ran /\ ~allowed THEN "deny" ELSE "none",
                               exit_code |-> IF ran /\ ~allowed THEN 1 ELSE 0],
                     hooks |-> conf.hooks + 1]
    /\ UNCHANGED <<failure_counts, max_strikes, observed, last_post, posts, striker,
                   notStrike>>

ConfirmNext == ResetOnUserPrompt \/ ConfirmPreToolUse

-----------------------------------------------------------------------------
(* Strike engine: properties *)

RECURSIVE TrailingFailures(_)
\* The length of the trailing run of failures of an outcome history.
TrailingFailures(h) ==
    IF Len(h) = 0 \/ ~h[Len(h)] THEN 0
    ELSE 1 + TrailingFailures(SubSeq(h, 1, Len(h) - 1))

StoredCount(k) == IF k \in DOMAIN failure_counts THEN failure_counts[k].count ELSE 0

\* C1: after any sequence of non-overlapping post hook calls, the count
\* stored for every key K is the length of the trailing run of failures
\* observed for K; a key whose last outcome was a success (or that was never
\* seen failing) is absent from the map, and a stored count is never below 1.
C1_StrikeMonotonicity ==
    /\ DOMAIN failure_counts \subseteq OpKeys
    /\ \A k \in OpKeys :
        /\ StoredCount(k) = TrailingFailures(observed[k])
        /\ (k \in DOMAIN failure_counts) <=> (TrailingFailures(observed[k]) > 0)
        /\ k \in DOMAIN failure_counts => failure_counts[k].count >= 1

\* fail, fail, success, fail leaves the counter at 1.
C1_Witness ==
    \E k \in OpKeys :
        /\ observed[k] = <<TRUE, TRUE, FALSE, TRUE>>
        /\ k \in DOMAIN failure_counts
        /\ failure_counts[k].count = 1

\* The message the strike protocol names for a count: diagnose, then
\* alternative, then escalate for the third and every later failure.
ProtocolMessage(count) ==
    IF count = 1 THEN MsgDiagnose
    ELSE IF count = 2 THEN MsgAlternative
    ELSE MsgEscalate

\* C2: every failing response emits the message chosen by the key's count
\* after the increment (1: diagnose, 2: alternative, 3 and more: escalate),
\* whatever max_strikes is configured.
C2_EscalationForEveryFailure ==
    (posts > 0 /\ last_post.is_failure) =>
        last_post.strike_msg = ProtocolMessage(StoredCount(last_post.op_key))

\* The error field of a response is absent or empty (a plain string and
\* None have no error field).
NoErrorField(r) == r.error = NoneVal \/ Len(r.error) = 0

-----------------------------------------------------------------------------
(* Persistent state store: focus_core.py load_json_file, atomic_write_json *)

\* Bound: bytes moved by one write or read system call.
IoChunk == 4
\* Bound: number of load_json_file calls explored.
MaxLoads == 2

Digit(n) == SubSeq("0123456789", n + 1, n + 1)

\* str(n) for 0 <= n <= 99
IntStr(n) == IF n < 10 THEN Digit(n) ELSE Digit(n \div 10) \o Digit(n % 10)

RECURSIVE DumpItems(_)
\* The items of a JSON object, a sequence of <<key, number>>, as json.dump
\* writes them with its default separators.
DumpItems(items) ==
    IF Len(items) = 0 THEN ""
    ELSE "\"" \o items[1][1] \o "\": " \o IntStr(items[1][2])
         \o (IF Len(items) > 1 THEN ", " ELSE "") \o DumpItems(Tail(items))

\* json.dump(data, f, ensure_ascii=False) of a mapping
Dump(data) == "{" \o DumpItems(data) \o "}"

\* The state values written and read: JSON objects.
EmptyValue == << >>
PriorValue == << <<"a", 1>> >>
SavedValues == << << <<"a", 2>> >>, << <<"a", 1>>, <<"b", 12>> >> >>
JsonValues == {EmptyValue, PriorValue} \cup {SavedValues[i] : i \in 1..Len(SavedValues)}

ParseError == <<"JSONDecodeError">>

\* json.load(f): the object the text denotes; a text that is no complete
\* JSON document does not parse.
Parse(text) ==
    IF \E v \in JsonValues : Dump(v) = text
    THEN CHOOSE v \in JsonValues : Dump(v) = text
    ELSE ParseError

Savers == 1..Len(SavedValues)

\* mkstemp: a fresh inode for the call's temp file (inode 1 is the prior file).
TmpInode(i) == i + 1

StoreIdle ==
    /\ dir_exists = TRUE
    /\ target = 0
    /\ inodes = << >>
    /\ tmp_names = {}
    /\ saver = << >>
    /\ loader = [pc |-> "idle", inode |-> 0, data |-> "", result |-> NoneVal, overlapped |-> FALSE]
    /\ loads = 0

StoreInit ==
    /\ \/ dir_exists = FALSE /\ target = 0
       \/ dir_exists = TRUE /\ target \in {0, 1}
    /\ inodes = [n \in 1..(Len(SavedValues) + 1) |-> IF n = 1 /\ target = 1 THEN Dump(PriorValue) ELSE ""]
    /\ tmp_names = {}
    /\ saver = [i \in Savers |-> [pc |-> "start", data |-> SavedValues[i], written |-> 0]]
    /\ loader = [pc |-> "idle", inode |-> 0, data |-> "", result |-> NoneVal, overlapped |-> FALSE]
    /\ loads = 0

\* A plausible slip: the rename is issued while the temp file is still
\* being written (before the with block has flushed and closed it).
ReadyToReplaceEarly(i) == saver[i].pc \in {"dump", "replace"}

\* os.replace is reached once the with block has written and closed the file.
ReadyToReplace(i) == saver[i].pc = "replace"

\* atomic_write_json: os.makedirs(dir_path, exist_ok=True); tempfile.mkstemp
SaveMkstemp(i) ==
    /\ saver[i].pc = "start"
    /\ dir_exists' = TRUE
    /\ inodes' = [inodes EXCEPT ![TmpInode(i)] = ""]
    /\ tmp_names' = tmp_names \cup {TmpInode(i)}
    /\ saver' = [saver EXCEPT ![i].pc = "dump"]
    /\ UNCHANGED <<target, loader, loads, notStore>>

\* atomic_write_json: json.dump into the temp file, one write at a time; the
\* with block closes the file once everything is written.
SaveDump(i) ==
    /\ saver[i].pc \in {"dump", "replaced_early"}
    /\ LET text == Dump(saver[i].data)
           n == Min(IoChunk, Len(text) - saver[i].written)
           done == saver[i].written + n = Len(text)
       IN  /\ inodes' = [inodes EXCEPT ![TmpInode(i)] =
                            @ \o SubSeq(text, saver[i].written + 1, saver[i].written + n)]
           /\ saver' = [saver EXCEPT ![i].written = @ + n,
                                     ![i].pc = IF ~done THEN @
                                               ELSE IF @ = "dump" THEN "replace"
                                               ELSE "returned"]
    /\ UNCHANGED <<dir_exists, target, tmp_names, loader, loads, notStore>>

\* atomic_write_json: os.replace(tmp_path, filepath); return True
SaveReplace(i) ==
    /\ ReadyToReplace(i)
    /\ target' = TmpInode(i)
    /\ tmp_names' = tmp_names \ {TmpInode(i)}
    /\ saver' = [saver EXCEPT ![i].pc = IF @ = "replace" THEN "returned" ELSE "replaced_early"]
    /\ loader' = [loader EXCEPT !.overlapped = @ \/ loader.pc = "read"]
    /\ UNCHANGED <<dir_exists, inodes, loads, notStore>>

\* An except clause that re-raises without the unlink.
NamesAfterNoCleanup(names, i) == names

\* if os.path.exists(tmp_path): os.unlink(tmp_path)
NamesAfterCleanup(names, i) == names \ {TmpInode(i)}

\* atomic_write_json: json.dump or os.replace raises; the except clause
\* unlinks the temp file if it exists and re-raises.
SaveRaise(i) ==
    /\ saver[i].pc \in {"dump", "replace"}
    /\ tmp_names' = NamesAfterCleanup(tmp_names, i)
    /\ saver' = [saver EXCEPT ![i].pc = "raised"]
    /\ UNCHANGED <<dir_exists, target, inodes, loader, loads, notStore>>

\* load_json_file: path.exists() is false: return {}; else open the file.
LoadOpen ==
    /\ loader.pc \in {"idle", "returned", "fatal"}
    /\ loads < MaxLoads
    /\ loads' = loads + 1
    /\ loader' = IF target = 0
                 THEN [pc |-> "returned", inode |-> 0, data |-> "", result |-> EmptyValue,
                       overlapped |-> FALSE]
                 ELSE [pc |-> "read", inode |-> target, data |-> "", result |-> NoneVal,
                       overlapped |-> FALSE]
    /\ UNCHANGED <<dir_exists, target, inodes, tmp_names, saver, notStore>>

\* load_json_file: json.load(f) reads the open file to its end, one read at
\* a time, and parses the text; a parse error is fatal (_fatal_error).
LoadRead ==
    /\ loader.pc = "read"
    /\ LET text == inodes[loader.inode]
           n == Min(IoChunk, Len(text) - Len(loader.data))
       IN  IF n > 0
           THEN loader' = [loader EXCEPT !.data = @ \o SubSeq(text, Len(@) + 1, Len(@) + n)]
           ELSE loader' = [loader EXCEPT
                    !.pc = IF Parse(loader.data) = ParseError THEN "fatal" ELSE "returned",
                    !.result = Parse(loader.data)]
    /\ UNCHANGED <<dir_exists, target, inodes, tmp_names, saver, loads, notStore>>

StoreNext ==
    \/ \E i \in Savers : SaveMkstemp(i) \/ SaveDump(i) \/ SaveReplace(i) \/ SaveRaise(i)
    \/ LoadOpen
    \/ LoadRead

-----------------------------------------------------------------------------
(* Persistent state store: properties *)

\* What a load finds when no save has replaced the file: the prior value,
\* or the zero value when the file is absent.
PriorOrZero == IF Len(inodes[1]) = 0 THEN EmptyValue ELSE PriorValue

\* C4: under any interleaving of save(path, v1) and save(path, v2) with
\* concurrent loads, a load never fails on a partial file and returns the
\* prior value or, in full, the value of a save whose rename has happened.
C4_AtomicSave ==
    /\ loader.pc # "fatal"
    /\ loader.pc = "returned" =>
        \/ loader.result = PriorOrZero
        \/ \E i \in Savers : loader.result = saver[i].data /\ saver[i].pc = "returned"

\* A load that a rename overtook while it was reading, and that returned
\* the value whose file it had opened while the other save was under way.
C4_Witness ==
    /\ loader.pc = "returned"
    /\ loader.overlapped
    /\ loader.inode # target
    /\ \E i \in Savers : loader.result = saver[i].data /\ target # TmpInode(i)

-----------------------------------------------------------------------------
(* Operation log: focus_hook.py record_operation, focus_core.py             *)
(* load_operations, checkpoint_session.py                                  *)

\* Bound: number of lines of an initial log.
MaxLog == 3
\* Bound: number of load_operations calls of the reader.
MaxReads == 2

\* Session ids of the host.
Sessions == {"abc", "def", "xyz"}

\* One line of operations.jsonl: a record {"ts", "hook_type", "ids":
\* {"session_id", ...}}; valid is FALSE for a line json.loads rejects.
LogLine(ts, hook_type, session_id) ==
    [ts |-> ts, hook_type |-> hook_type, session_id |-> session_id, valid |-> TRUE]
GarbageLine == [ts |-> 0, hook_type |-> NoneVal, session_id |-> NoneVal, valid |-> FALSE]

\* op.get('ids', {}).get('session_id')
SessionIdOf(op) == op.session_id

RECURSIVE ParseLines(_)
\* load_operations: the lines that parse, in file order; a line that does
\* not parse is logged and skipped.
ParseLines(lines) ==
    IF Len(lines) = 0 THEN << >>
    ELSE (IF lines[1].valid THEN <<lines[1]>> ELSE << >>) \o ParseLines(Tail(lines))

\* load_operations(operations_file): [] when the file does not exist.
load_operations(inode) == IF inode = 0 THEN << >> ELSE ParseLines(log_inodes[inode])

RECURSIVE ckpt_get_current_session_id(_)
\* checkpoint_session.get_current_session_id: the session id of the latest
\* operation that has one, else None.
ckpt_get_current_session_id(operations) ==
    IF Len(operations) = 0 THEN NoneVal
    ELSE LET sid == SessionIdOf(operations[Len(operations)]) IN
         IF sid # NoneVal THEN sid
         ELSE ckpt_get_current_session_id(SubSeq(operations, 1, Len(operations) - 1))

RECURSIVE AllSessionIds(_, _)
AllSessionIds(operations, ordered) ==
    IF Len(operations) = 0 THEN ordered
    ELSE LET sid == SessionIdOf(operations[1]) IN
         AllSessionIds(Tail(operations),
                       IF sid # NoneVal /\ \A i \in 1..Len(ordered) : ordered[i] # sid
                       THEN Append(ordered, sid) ELSE ordered)

\* Unique session ids in order of first appearance.
get_all_session_ids_from_operations(operations) == AllSessionIds(operations, << >>)

RECURSIVE SessionsWithTranscript(_, _)
SessionsWithTranscript(all_sids, current_sid) ==
    IF Len(all_sids) = 0 THEN << >>
    ELSE (IF all_sids[1] # current_sid /\ all_sids[1] \in transcripts
          THEN <<all_sids[1]>> ELSE << >>)
         \o SessionsWithTranscript(Tail(all_sids), current_sid)

\* A plausible slip: the sessions come newest first.
get_sessions_to_process_newest_first(operations) ==
    IF ~project_dir THEN << >>
    ELSE LET oldest_first ==
                 SessionsWithTranscript(get_all_session_ids_from_operations(operations),
                                        ckpt_get_current_session_id(operations))
         IN  [i \in 1..Len(oldest_first) |-> oldest_first[Len(oldest_first) + 1 - i]]

\* Sessions to process: oldest first, the current one excluded, and only
\* those whose transcript exists in the project directory.
get_sessions_to_process(operations) ==
    IF ~project_dir THEN << >>
    ELSE SessionsWithTranscript(get_all_session_ids_from_operations(operations),
                                ckpt_get_current_session_id(operations))

\* A plausible slip: the filter keeps the processed sessions.
RemainingOpsInverted(operations, processed_sids) ==
    SelectSeq(operations, LAMBDA op : InList(SessionIdOf(op), processed_sids))

RECURSIVE RemainingOps(_, _)
\* [op for op in operations if session_id not in processed_sids]
RemainingOps(operations, processed_sids) ==
    IF Len(operations) = 0 THEN << >>
    ELSE (IF ~InList(SessionIdOf(operations[1]), processed_sids)
          THEN <<operations[1]>> ELSE << >>)
         \o RemainingOps(Tail(operations), processed_sids)

\* A plausible slip: interactive and silent mode swapped.
SessionsForModeSwapped(sessions, mode) ==
    IF mode = "silent" THEN SubSeq(sessions, 1, Min(1, Len(sessions))) ELSE sessions

\* main: interactive/oldest takes sessions[:1], silent takes them all.
SessionsForMode(sessions, mode) ==
    IF mode \in {"interactive", "oldest"}
    THEN SubSeq(sessions, 1, Min(1, Len(sessions)))
    ELSE sessions

NoResult == [original |-> 0, removed |-> 0, remaining |-> 0]

\* What the omission classifier does for a session: answers NONE, answers
\* with items, cannot be imported, raises in the API call, or answers with
\* no content.
ClassifierOutcomes == {"none", "items", "unavailable", "raises", "empty"}

\* The value of a call that did not return: the exception went up.
Raised == "<raised>"

\* call_haiku_omission_check with the exception of the API call going up.
call_haiku_omission_check_propagates(outcome) ==
    CASE outcome = "unavailable" -> "ERROR: anthropic module not installed"
      [] outcome = "raises" -> Raised
      [] outcome = "empty" -> "ERROR: Empty response from API"
      [] outcome = "none" -> Strip(" NONE\n")
      [] outcome = "items" -> Strip("[Issue] build fails\n")

\* call_haiku_omission_check: ImportError and any exception of the API call
\* are logged and returned as text; else the stripped text of the answer.
call_haiku_omission_check(outcome) ==
    CASE outcome = "unavailable" -> "ERROR: anthropic module not installed"
      [] outcome = "raises" -> "ERROR: " \o "Connection error."
      [] outcome = "empty" -> "ERROR: Empty response from API"
      [] outcome = "none" -> Strip(" NONE\n")
      [] outcome = "items" -> Strip("[Issue] build fails\n")

\* The answer of call_haiku_omission_check for each condition of the
\* classifier.
OmissionCheck == [outcome \in ClassifierOutcomes |-> call_haiku_omission_check(outcome)]

\* process_single_session: the failed operations of the session are counted
\* and, unless dry_run, appended to the pending issues; then the omission
\* result is the classifier's text, or the session text for the AI to check.
process_single_session(sid, errors, use_haiku, outcome, dry_run) ==
    [sid |-> sid, errors_count |-> errors,
     issues |-> IF dry_run THEN << >> ELSE [k \in 1..errors |-> sid],
     omission_result |-> IF use_haiku THEN OmissionCheck[outcome]
                         ELSE "[AI_CHECK_REQUIRED]"]

NoProgress ==
    [processed_sids |-> << >>, total_errors |-> 0, omission_results |-> << >>,
     pending_issues |-> << >>, raised |-> FALSE]

RECURSIVE ProcessSessions(_, _, _, _)
\* main, the loop over sessions_to_process from position k on; an exception
\* of process_single_session ends the loop and main.
ProcessSessions(sessions_to_process, k, acc, c) ==
    IF k > Len(sessions_to_process) \/ acc.raised THEN acc
    ELSE LET sid == sessions_to_process[k]
             result == process_single_session(sid, c.errors[sid], c.use_haiku,
                                              c.classifier[sid], c.dry_run)
             pending == acc.pending_issues \o result.issues
         IN  IF result.omission_result = Raised
             THEN [acc EXCEPT !.pending_issues = pending, !.raised = TRUE]
             ELSE ProcessSessions(sessions_to_process, k + 1,
                    [acc EXCEPT
                        !.processed_sids = Append(@, sid),
                        !.total_errors = @ + result.errors_count,
                        !.pending_issues = pending,
                        !.omission_results =
                            IF result.omission_result \notin {"", "NONE"}
                            THEN Append(@, <<sid, result.omission_result>>) ELSE @], c)

CkptIdle ==
    [pc |-> "idle", mode |-> "silent", dry_run |-> FALSE, operations |-> << >>,
     processed_sids |-> << >>, remaining |-> << >>, result |-> NoResult,
     inode |-> 0, next |-> 0, before |-> << >>,
     use_haiku |-> TRUE, classifier |-> [s \in Sessions |-> "none"],
     errors |-> [s \in Sessions |-> 0], total_errors |-> 0,
     pending_issues |-> << >>, omission_results |-> << >>,
     env |-> "", marker |-> NoneVal, run |-> 1]

ReaderIdle == [pc |-> "idle", inode |-> 0, result |-> << >>]

\* The hook invocations of the race: the session and the hook type of each.
HookCalls == << [session_id |-> "xyz", hook_type |-> "PostToolUse"],
                [session_id |-> "xyz", hook_type |-> "Stop"] >>
Hooks == 1..Len(HookCalls)

LogIdle ==
    /\ log_target = 0
    /\ log_inodes = << >>
    /\ transcripts = {}
    /\ project_dir = TRUE
    /\ clock = 0
    /\ hook = << >>
    /\ ckpt = CkptIdle
    /\ reader = ReaderIdle
    /\ reads = 0
    /\ written = {}

--------------------------------------------------------------------------
(* checkpoint_session.py *)

\* main: load the operations, pick the sessions for the mode, process each
\* (process_single_session reads the transcript and the notes; it does not
\* touch the log) and collect processed_sids. With no operations or no
\* session to process main exits before the prune.
CkptMain ==
    /\ ckpt.pc = "start"
    /\ \E operations \in {load_operations(log_target)} :
       \E sessions \in {get_sessions_to_process(operations)} :
       \E sessions_to_process \in {SessionsForMode(sessions, ckpt.mode)} :
       \E done \in {IF Len(operations) = 0 \/ Len(sessions) = 0 THEN NoProgress
                    ELSE ProcessSessions(sessions_to_process, 1, NoProgress, ckpt)} :
           ckpt' = [ckpt EXCEPT
                !.operations = operations,
                !.before = operations,
                !.processed_sids = done.processed_sids,
                !.total_errors = done.total_errors,
                !.pending_issues = done.pending_issues,
                !.omission_results = done.omission_results,
                !.pc = IF Len(operations) = 0 \/ Len(sessions) = 0 THEN "exit"
                       ELSE IF done.raised THEN "crashed" ELSE "prune"]
    /\ UNCHANGED <<log_target, log_inodes, transcripts, project_dir, clock, hook, reader,
                   reads, written, notLog>>

\* A prune that writes the log back whenever it is not a dry run.
RewritesLogAlways(dry_run, result) == ~dry_run

\* if not dry_run and result["removed"] > 0
RewritesLog(dry_run, result) == ~dry_run /\ result.removed > 0

\* remove_processed_sessions: return the zero result when the file does not
\* exist; else load the operations, compute remaining and the counts.
PruneLoad ==
    /\ ckpt.pc = "prune"
    /\ LET operations == load_operations(log_target)
           remaining == RemainingOps(operations, ckpt.processed_sids)
           result == [original |-> Len(operations), remaining |-> Len(remaining),
                      removed |-> Len(operations) - Len(remaining)]
       IN  IF log_target = 0
           THEN /\ ckpt' = [ckpt EXCEPT !.pc = "done", !.result = NoResult,
                                        !.before = << >>, !.remaining = << >>]
                /\ UNCHANGED written
           ELSE /\ ckpt' = [ckpt EXCEPT
                        !.before = operations, !.remaining = remaining, !.result = result,
                        !.pc = IF RewritesLog(ckpt.dry_run, result) THEN "open" ELSE "done"]
                /\ written' = IF RewritesLog(ckpt.dry_run, result)
                              THEN written \cup {remaining} ELSE written
    /\ UNCHANGED <<log_target, log_inodes, transcripts, project_dir, clock, hook, reader,
                   reads, notLog>>

\* remove_processed_sessions: open(operations_file, 'w') truncates the file
\* the name points to (and creates it when a rename has not happened yet).
PruneOpen ==
    /\ ckpt.pc = "open"
    /\ log_target # 0
    /\ log_inodes' = [log_inodes EXCEPT ![log_target] = << >>]
    /\ ckpt' = [ckpt EXCEPT !.pc = "write", !.inode = log_target, !.next = 1]
    /\ UNCHANGED <<log_target, transcripts, project_dir, clock, hook, reader, reads,
                   written, notLog>>

\* remove_processed_sessions: f.write(json.dumps(op) + '\n') for the next
\* remaining op; after the last one the with block closes the file.
PruneWrite ==
    /\ ckpt.pc = "write"
    /\ IF ckpt.next <= Len(ckpt.remaining)
       THEN /\ log_inodes' = [log_inodes EXCEPT ![ckpt.inode] = Append(@, ckpt.remaining[ckpt.next])]
            /\ ckpt' = [ckpt EXCEPT !.next = @ + 1]
       ELSE /\ ckpt' = [ckpt EXCEPT !.pc = "done"]
            /\ UNCHANGED log_inodes
    /\ UNCHANGED <<log_target, transcripts, project_dir, clock, hook, reader, reads,
                   written, notLog>>

CkptNext == CkptMain \/ PruneLoad \/ PruneOpen \/ PruneWrite

\* Bound: number of checkpoint runs made one after the other.
MaxCkptRuns == 3

\* The checkpoint is run again, with the same arguments, after the run
\* before it has ended.
CkptAgain ==
    /\ ckpt.pc \in {"done", "exit"}
    /\ ckpt.run < MaxCkptRuns
    /\ ckpt' = [CkptIdle EXCEPT !.pc = "start", !.mode = ckpt.mode,
                                !.dry_run = ckpt.dry_run, !.run = ckpt.run + 1]
    /\ UNCHANGED <<log_target, log_inodes, transcripts, project_dir, clock, hook, reader,
                   reads, written, notLog>>

InteractiveNext == CkptMain \/ PruneLoad \/ PruneOpen \/ PruneWrite \/ CkptAgain

RECURSIVE SeqOfSet(_)
\* The elements of a finite set as a list, in some order.
SeqOfSet(S) == IF S = {} THEN << >>
               ELSE LET x == CHOOSE y \in S : TRUE IN <<x>> \o SeqOfSet(S \ {x})

\* The initial logs: up to MaxLog lines, each a record of some session, a
\* record without session id, or a line that does not parse; written in
\* timestamp order.
LineKinds == Sessions \cup {NoneVal, "<garbage>"}
InitialLogs ==
    UNION { { [i \in 1..n |-> IF kinds[i] = "<garbage>" THEN GarbageLine
                              ELSE LogLine(i, "PostToolUse", kinds[i])] :
              kinds \in [1..n -> LineKinds] } : n \in 0..MaxLog }

\* The checkpoint run alone (no hook, no reader): main in either mode, with
\* or without a failed operation in each session, or a
\* direct call remove_processed_sessions(file, R, dry_run) as focus_done.py
\* makes it, on any initial log.
CheckpointInit ==
    /\ log_target \in {0, 1}
    /\ \E log \in InitialLogs :
        /\ log_inodes = <<IF log_target = 1 THEN log ELSE << >> >>
        /\ log_target = 0 => log = << >>
    /\ \/ project_dir = TRUE /\ transcripts \in SUBSET Sessions
       \/ project_dir = FALSE /\ transcripts = Sessions
    /\ clock = MaxLog
    /\ hook = << >>
    /\ \E dry_run \in BOOLEAN :
        \/ \E mode \in {"silent", "interactive"}, failed \in 0..1 :
            ckpt = [CkptIdle EXCEPT !.pc = "start", !.mode = mode, !.dry_run = dry_run,
                                    !.errors = [sid \in Sessions |-> failed]]
        \/ \E R \in SUBSET Sessions :
            /\ project_dir /\ transcripts = {}
            /\ ckpt = [CkptIdle EXCEPT !.pc = "prune", !.mode = "direct",
                                       !.dry_run = dry_run, !.processed_sids = SeqOfSet(R)]
    /\ reader = ReaderIdle
    /\ reads = 0
    /\ written = {log_inodes[1]}

\* Interactive checkpoint runs, one after the other, on any initial log, with
\* any set of transcripts, with or without --dry-run.
InteractiveInit ==
    /\ log_target = 1
    /\ \E log \in InitialLogs : log_inodes = <<log>>
    /\ \/ project_dir = TRUE /\ transcripts \in SUBSET Sessions
       \/ project_dir = FALSE /\ transcripts = Sessions
    /\ clock = MaxLog
    /\ hook = << >>
    /\ \E mode \in {"interactive", "oldest"}, dry_run \in BOOLEAN :
        ckpt = [CkptIdle EXCEPT !.pc = "start", !.mode = mode, !.dry_run = dry_run]
    /\ reader = ReaderIdle
    /\ reads = 0
    /\ written = {log_inodes[1]}

\* The log of the classifier runs: two old sessions and the current one.
ClassifierLog ==
    << LogLine(1, "PostToolUse", "abc"), LogLine(2, "PostToolUse", "def"),
       LogLine(3, "Stop", "abc"), LogLine(4, "UserPromptSubmit", "xyz") >>

OldSessions == {"abc", "def"}

\* The checkpoint run with the omission classifier in any condition for each
\* old session and any number of failed operations found in each.
ClassifierInit ==
    /\ log_target = 1
    /\ log_inodes = <<ClassifierLog>>
    /\ transcripts \in {OldSessions, {"abc"}}
    /\ project_dir = TRUE
    /\ clock = Len(ClassifierLog)
    /\ hook = << >>
    /\ \E mode \in {"silent", "interactive"}, dry_run \in BOOLEAN, use_haiku \in BOOLEAN,
          outcome \in [OldSessions -> ClassifierOutcomes], failed \in [OldSessions -> 0..1] :
            /\ ~use_haiku => \A sid \in OldSessions : outcome[sid] = "none"
            /\ ckpt = [CkptIdle EXCEPT !.pc = "start", !.mode = mode, !.dry_run = dry_run,
                          !.use_haiku = use_haiku,
                          !.classifier = [sid \in Sessions |->
                                IF sid \in OldSessions THEN outcome[sid] ELSE "none"],
                          !.errors = [sid \in Sessions |->
                                IF sid \in OldSessions THEN failed[sid] ELSE 0]]
    /\ reader = ReaderIdle
    /\ reads = 0
    /\ written = {ClassifierLog}

--------------------------------------------------------------------------
(* focus_hook.py record_operation and a reader, racing the checkpoint *)

\* The log the race starts from: three records of an old session and two
\* of the current one.
RaceLog == << LogLine(1, "PostToolUse", "abc"), LogLine(2, "PostToolUse", "abc"),
              LogLine(3, "UserPromptSubmit", "xyz") >>

\* tempfile.mkstemp: a fresh inode per call (inode 1 is the initial log).
HookInode(i) == i + 1

RaceInit ==
    /\ log_target = 1
    /\ log_inodes = [n \in 1..(Len(HookCalls) + 1) |-> IF n = 1 THEN RaceLog ELSE << >>]
    /\ transcripts = {"abc"}
    /\ project_dir = TRUE
    /\ clock = Len(RaceLog)
    /\ hook = [i \in Hooks |-> [pc |-> "start", record |-> GarbageLine, existing |-> << >>]]
    /\ ckpt = [CkptIdle EXCEPT !.pc = "start"]
    /\ reader = ReaderIdle
    /\ reads = 0
    /\ written = {RaceLog}

\* A temp file that holds the new line only.
TempContentRecordOnly(existing, record) == <<record>>

\* record_operation: f.write(existing + new_line) into the temp file.
TempContent(existing, record) == Append(existing, record)

\* Two hook invocations alone (no checkpoint, no reader) on a log of up to
\* MaxLog records, or with no log file yet.
AppendInit ==
    /\ \E n \in 0..MaxLog, sid \in Sessions :
        LET base == [k \in 1..n |-> LogLine(k, "PostToolUse", sid)] IN
        /\ log_target \in {0, 1}
        /\ log_target = 0 => n = 0
        /\ log_inodes = [k \in 1..(Len(HookCalls) + 1) |-> IF k = 1 THEN base ELSE << >>]
        /\ clock = n
        /\ written = {base}
    /\ transcripts = {}
    /\ project_dir = TRUE
    /\ hook = [i \in Hooks |-> [pc |-> "start", record |-> GarbageLine, existing |-> << >>]]
    /\ ckpt = CkptIdle
    /\ reader = ReaderIdle
    /\ reads = 0

\* record_operation: build the record; "ts" is datetime.now().
HookStamp(i) ==
    /\ hook[i].pc = "start"
    /\ clock' = clock + 1
    /\ hook' = [hook EXCEPT ![i].pc = "read",
                    ![i].record = LogLine(clock + 1, HookCalls[i].hook_type,
                                          HookCalls[i].session_id)]
    /\ UNCHANGED <<log_target, log_inodes, transcripts, project_dir, ckpt, reader, reads,
                   written, notLog>>

\* record_operation: existing = f.read() of the log when it exists.
HookRead(i) ==
    /\ hook[i].pc = "read"
    /\ LET existing == IF log_target = 0 THEN << >> ELSE log_inodes[log_target] IN
        /\ hook' = [hook EXCEPT ![i].pc = "replace", ![i].existing = existing]
        /\ written' = written \cup {TempContent(existing, hook[i].record)}
    /\ UNCHANGED <<log_target, log_inodes, transcripts, project_dir, clock, ckpt, reader,
                   reads, notLog>>

\* record_operation: write existing + new_line to a temp file and
\* os.replace it over the log.
HookReplace(i) ==
    /\ hook[i].pc = "replace"
    /\ log_inodes' = [log_inodes EXCEPT ![HookInode(i)] = TempContent(hook[i].existing, hook[i].record)]
    /\ log_target' = HookInode(i)
    /\ hook' = [hook EXCEPT ![i].pc = "done"]
    /\ UNCHANGED <<transcripts, project_dir, clock, ckpt, reader, reads, written, notLog>>

\* load_operations of a reader: [] when the file does not exist, else open it.
ReaderOpen ==
    /\ reader.pc \in {"idle", "done"}
    /\ reads < MaxReads
    /\ reads' = reads + 1
    /\ reader' = IF log_target = 0
                 THEN [pc |-> "done", inode |-> 0, result |-> << >>]
                 ELSE [pc |-> "opened", inode |-> log_target, result |-> << >>]
    /\ UNCHANGED <<log_target, log_inodes, transcripts, project_dir, clock, hook, ckpt,
                   written, notLog>>

\* load_operations of a reader: read the open file and parse its lines.
ReaderRead ==
    /\ reader.pc = "opened"
    /\ reader' = [reader EXCEPT !.pc = "done", !.result = load_operations(reader.inode)]
    /\ UNCHANGED <<log_target, log_inodes, transcripts, project_dir, clock, hook, ckpt,
                   reads, written, notLog>>

AppendNext == \E i \in Hooks : HookStamp(i) \/ HookRead(i) \/ HookReplace(i)

RaceNext ==
    \/ CkptMain \/ PruneLoad \/ PruneOpen \/ PruneWrite
    \/ \E i \in Hooks : HookStamp(i) \/ HookRead(i) \/ HookReplace(i)
    \/ ReaderOpen \/ ReaderRead

-----------------------------------------------------------------------------
(* Operation log: properties *)

\* C5: a reader only ever observes a log that is the complete output of one
\* writer (or the initial log), never a truncated or partly rewritten file.
C5_ReaderSeesWholeLog ==
    reader.pc = "done" => \E w \in written : reader.result = ParseLines(w)

ListSet(list) == {list[i] : i \in 1..Len(list)}

\* The content of the log file now, as load_operations parses it.
LogNow == load_operations(log_target)

\* The number of records of ops that carry session id sid.
CountOf(ops, sid) == Cardinality({i \in 1..Len(ops) : ops[i].session_id = sid})

\* C6: for every log and every removal list R, the prune keeps exactly the
\* records whose session id is not in R, in their original order; original
\* = remaining + removed; records without session id, and records of
\* sessions outside R, are all kept; unless it is a dry run or nothing was
\* removed, the file then holds exactly the kept records.
C6_PruningCorrectness ==
    (ckpt.pc = "done" /\ log_target # 0) =>
        LET R == ListSet(ckpt.processed_sids)
            kept == SelectSeq(ckpt.before, LAMBDA op : op.session_id \notin R)
        IN  /\ ckpt.remaining = kept
            /\ ckpt.result.original = Len(ckpt.before)
            /\ ckpt.result.remaining = Len(kept)
            /\ ckpt.result.original = ckpt.result.remaining + ckpt.result.removed
            /\ ckpt.result.removed =
                   Cardinality({i \in 1..Len(ckpt.before) : ckpt.before[i].session_id \in R})
            /\ \A sid \in (Sessions \cup {NoneVal}) \ R :
                   CountOf(ckpt.remaining, sid) = CountOf(ckpt.before, sid)
            /\ (~ckpt.dry_run /\ ckpt.result.removed > 0) => log_inodes[log_target] = kept
            /\ (ckpt.dry_run \/ ckpt.result.removed = 0) => log_inodes[log_target] \in written

\* A direct prune of {abc} from a three record log that removed one record
\* and kept, in order, a record without session id and one of another session.
C6_Witness ==
    /\ ckpt.pc = "done"
    /\ ckpt.mode = "direct"
    /\ ~ckpt.dry_run
    /\ ListSet(ckpt.processed_sids) = {"abc"}
    /\ ckpt.result = [original |-> 3, removed |-> 1, remaining |-> 2]
    /\ Len(log_inodes[log_target]) = 2
    /\ log_inodes[log_target][1].session_id = NoneVal
    /\ log_inodes[log_target][2].session_id = "xyz"

\* The current session as the checkpoint sees it: the session id of the
\* last record that has one.
LastSessionId(ops) ==
    LET having == {i \in 1..Len(ops) : ops[i].session_id # NoneVal} IN
    IF having = {} THEN NoneVal
    ELSE ops[CHOOSE i \in having : \A j \in having : j <= i].session_id

SessionIdsIn(ops) == {ops[i].session_id : i \in 1..Len(ops)} \ {NoneVal}

\* A silent checkpoint (not a dry run) has completed on a log that held
\* records of the current session and of at least one other session.
SilentCheckpointCompleted ==
    /\ ckpt.pc \in {"done", "exit"}
    /\ ckpt.mode = "silent"
    /\ ~ckpt.dry_run
    /\ Cardinality(SessionIdsIn(ckpt.operations)) >= 2

-----------------------------------------------------------------------------
(* Transcript extractor: recover_context.py *)

\* Bound: number of lines of a transcript.
MaxTurns == 3

\* header_reserve of filter_session_from_end
header_reserve == 100

\* RECOVER_CONFIG: max_entry_length, noise_patterns, the tools to filter.
MAX_ENTRY_LENGTH == 24
NOISE_PATTERNS == <<"[focus]">>
TOOLS_TO_FILTER == {"Read", "Grep"}

NOISE_XML_TAGS ==
    << "<command-name>", "</command-name>", "<command-message>", "</command-message>",
       "<command-args>", "</command-args>", "<local-command-stdout>",
       "</local-command-stdout>", "<local-command-caveat>", "</local-command-caveat>",
       "<system-reminder>", "</system-reminder>", "<system>", "</system>" >>

\* s.startswith(prefix)
StartsWith(s, prefix) == Len(s) >= Len(prefix) /\ SubSeq(s, 1, Len(prefix)) = prefix

RECURSIVE ReplaceAll(_, _)
\* s.replace(pattern, '') for a non-empty pattern
ReplaceAll(s, pattern) ==
    IF Len(s) < Len(pattern) THEN s
    ELSE IF SubSeq(s, 1, Len(pattern)) = pattern
    THEN ReplaceAll(SubSeq(s, Len(pattern) + 1, Len(s)), pattern)
    ELSE Head(s) \o ReplaceAll(Tail(s), pattern)

RECURSIVE JoinLines(_)
\* '\n'.join(lines)
JoinLines(lines) ==
    IF Len(lines) = 0 THEN ""
    ELSE IF Len(lines) = 1 THEN lines[1]
    ELSE lines[1] \o "\n" \o JoinLines(Tail(lines))

\* A parsed timestamp: ok is FALSE for None (field absent or unparseable).
Time(date, hm) == [ok |-> TRUE, date |-> date, hm |-> hm]
NoTime == [ok |-> FALSE, date |-> "", hm |-> ""]

\* format_time: dt.strftime("[%H:%M]"), or "[??:??]" for None
format_time(dt) == IF dt.ok THEN "[" \o dt.hm \o "]" ELSE "[??:??]"

\* A plausible slip: the tags are looked for only at the start of the text.
_is_noise_content_tag_at_start(text0) ==
    IF Len(text0) = 0 THEN TRUE
    ELSE LET text == Strip(text0) IN
         \/ Len(text) = 0
         \/ StartsWith(text, "<system")
         \/ \E i \in 1..Len(NOISE_XML_TAGS) : StartsWith(text, NOISE_XML_TAGS[i])
         \/ StartsWith(text, "[Request interrupted by user")

_is_noise_content(text0) ==
    IF Len(text0) = 0 THEN TRUE
    ELSE LET text == Strip(text0) IN
         \/ Len(text) = 0
         \/ StartsWith(text, "<system")
         \/ \E i \in 1..Len(NOISE_XML_TAGS) : Contains(NOISE_XML_TAGS[i], text)
         \/ StartsWith(text, "[Request interrupted by user")

\* One item of a message's content list.
TextItem(text) == [type |-> "text", text |-> text, name |-> ""]
ToolUse(name) == [type |-> "tool_use", text |-> "", name |-> name]
ToolResult(text) == [type |-> "tool_result", text |-> text, name |-> ""]

\* One line of a transcript: valid is FALSE when json.loads rejects it;
\* content is a string (kind "str") or a list of items (kind "list").
TLine(type, timestamp, kind, text, items) ==
    [valid |-> TRUE, type |-> type, timestamp |-> timestamp, kind |-> kind,
     text |-> text, items |-> items]
BadLine == [valid |-> FALSE, type |-> "", timestamp |-> NoTime, kind |-> "str",
            text |-> "", items |-> << >>]

NoEntry == [ok |-> FALSE, time |-> NoTime, type |-> "", content |-> "", formatted |-> ""]
Entry(time, type, content, formatted) ==
    [ok |-> TRUE, time |-> time, type |-> type, content |-> content, formatted |-> formatted]

RECURSIVE UserTexts(_)
\* The text items of a user content list that are not noise.
UserTexts(items) ==
    IF Len(items) = 0 THEN << >>
    ELSE (IF items[1].type = "text" /\ Len(items[1].text) > 0
             /\ ~_is_noise_content(items[1].text)
          THEN <<items[1].text>> ELSE << >>) \o UserTexts(Tail(items))

RECURSIVE AssistantTexts(_)
\* The non-empty text items of an assistant content list.
AssistantTexts(items) ==
    IF Len(items) = 0 THEN << >>
    ELSE (IF items[1].type = "text" /\ Len(items[1].text) > 0
          THEN <<items[1].text>> ELSE << >>) \o AssistantTexts(Tail(items))

RECURSIVE StripNoise(_, _)
\* for noise in NOISE_PATTERNS: combined = combined.replace(noise, '').strip()
StripNoise(combined, i) ==
    IF i > Len(NOISE_PATTERNS) THEN combined
    ELSE StripNoise(Strip(ReplaceAll(combined, NOISE_PATTERNS[i])), i + 1)

\* Only filtered tools: the list has a tool call and all are filtered.
OnlyFilteredTools(items) ==
    LET tool_names == {i \in 1..Len(items) : items[i].type = "tool_use"} IN
    /\ TOOLS_TO_FILTER # {}
    /\ tool_names # {}
    /\ \A i \in tool_names : items[i].name \in TOOLS_TO_FILTER

\* A plausible slip: the mark is added but nothing is cut.
TruncateTextKeepsAll(combined, truncate) ==
    IF truncate /\ Len(combined) > MAX_ENTRY_LENGTH THEN combined \o "..." ELSE combined

\* if truncate and len(combined) > MAX_ENTRY_LENGTH:
\*     combined = combined[:MAX_ENTRY_LENGTH] + '...'
TruncateText(combined, truncate) ==
    IF truncate /\ Len(combined) > MAX_ENTRY_LENGTH
    THEN Take(combined, MAX_ENTRY_LENGTH) \o "..."
    ELSE combined

extract_valuable_content(line, truncate) ==
    IF ~line.valid THEN NoEntry
    ELSE IF line.type \notin {"user", "assistant"} THEN NoEntry
    ELSE IF line.type = "user"
    THEN LET texts == UserTexts(line.items)
             content == IF line.kind = "list" THEN JoinLines(texts) ELSE line.text
         IN  IF line.kind = "list" /\ Len(texts) = 0 THEN NoEntry
             ELSE IF line.kind \notin {"list", "str"} THEN NoEntry
             ELSE IF Len(content) = 0 \/ _is_noise_content(content) THEN NoEntry
             ELSE Entry(line.timestamp, "USER", content,
                        format_time(line.timestamp) \o " USER: " \o content)
    ELSE IF line.kind = "list" /\ OnlyFilteredTools(line.items) THEN NoEntry
    ELSE LET texts == IF line.kind = "list" THEN AssistantTexts(line.items) ELSE << >>
             stripped == StripNoise(JoinLines(texts), 1)
             combined == TruncateText(stripped, truncate)
         IN  IF Len(texts) = 0 THEN NoEntry
             ELSE IF Len(stripped) = 0 THEN NoEntry
             ELSE Entry(line.timestamp, "CLAUDE", combined,
                        format_time(line.timestamp) \o " CLAUDE: " \o combined)

\* Lines used by name.
LineFix == TLine("user", Time("2025-03-01", "10:01"), "str", "fix the parser bug", << >>)
LineOk == TLine("user", NoTime, "str", "ok", << >>)
LineRerun == TLine("user", Time("2025-03-01", "10:03"), "list", "",
                   <<ToolResult("file body"), TextItem("and rerun the tests please")>>)
LineChanged == TLine("assistant", Time("2025-03-01", "10:04"), "list", "",
                     <<TextItem("[focus] I changed parse() so that empty input is accepted."),
                       ToolUse("Edit")>>)

\* The lines transcripts are made of.
SampleLines ==
    { TLine("user", Time("2025-03-01", "10:01"), "str", "fix the parser bug", << >>),
      TLine("user", NoTime, "str", "ok", << >>),
      TLine("user", Time("2025-03-01", "10:02"), "str",
            "<system-reminder>update the notes</system-reminder>", << >>),
      TLine("user", Time("2025-03-01", "10:03"), "list", "",
            <<ToolResult("file body"), TextItem("and rerun the tests please")>>),
      TLine("assistant", Time("2025-03-01", "10:04"), "list", "",
            <<TextItem("[focus] I changed parse() so that empty input is accepted."),
              ToolUse("Edit")>>),
      TLine("assistant", Time("2025-03-01", "10:05"), "list", "", <<ToolUse("Read")>>),
      TLine("file-history-snapshot", NoTime, "str", "", << >>),
      BadLine }

\* Further lines, for the filtering rules: user turns that are noise in one
\* way or another, a user turn of a noise item and a real one, and an
\* assistant turn with free text next to a call of a filtered tool.
FilterLines ==
    { TLine("user", Time("2025-03-01", "10:06"), "str",
            "see <command-name>/clear</command-name> above", << >>),
      TLine("user", Time("2025-03-01", "10:07"), "str",
            "[Request interrupted by user for tool use]", << >>),
      TLine("user", Time("2025-03-01", "10:08"), "str", " \n\t", << >>),
      TLine("user", Time("2025-03-01", "10:09"), "list", "",
            <<TextItem("<system-reminder>todo list is empty</system-reminder>"),
              TextItem("go on")>>),
      TLine("user", Time("2025-03-01", "10:10"), "list", "",
            <<TextItem("<local-command-stdout>done</local-command-stdout>")>>),
      TLine("assistant", Time("2025-03-01", "10:11"), "list", "",
            <<TextItem("The bug is in parse()."), ToolUse("Read")>>) }

\* The entry of every line under either truncate flag, computed once.
Extracted == [line \in SampleLines \cup FilterLines, truncate \in BOOLEAN |->
                 extract_valuable_content(line, truncate)]

\* The transcripts: up to MaxTurns lines, oldest first.
Transcripts == UNION { [1..n -> SampleLines] : n \in 0..MaxTurns }

\* Transcripts that put each line alone, last, first and between two turns.
ProbeTranscripts ==
    UNION { { <<x>>, <<LineFix, x>>, <<x, LineOk>>, <<LineFix, x, LineOk>> } :
            x \in SampleLines \cup FilterLines }

\* The character budgets a call is given.
Budgets == {0, 60, 100, 126, 150, 170, 260}

\* entry_len = len(entry['formatted']) + 2
EntryLen(entry) == Len(entry.formatted) + 2

\* A plausible slip: the fit test forgets that the header reserve was
\* taken off the budget.
TooLargeForBudget(entry_len, remaining) == entry_len > remaining + header_reserve

\* if entry_len > remaining: the entry is skipped.
TooLarge(entry_len, remaining) == entry_len > remaining

\* A plausible slip: nothing is reserved for the header.
SeedRemainingNoReserve(char_budget) == char_budget

\* remaining = char_budget; remaining -= header_reserve
SeedRemaining(char_budget) == char_budget - header_reserve

Reverse(seq) == [i \in 1..Len(seq) |-> seq[Len(seq) + 1 - i]]

RECURSIVE EntryLines(_)
\* for entry in entries: lines.append(entry['formatted']); lines.append("")
EntryLines(entries) ==
    IF Len(entries) = 0 THEN << >>
    ELSE <<entries[1].formatted, "">> \o EntryLines(Tail(entries))

\* The header line for the time range of the chronological entries.
SessionHeader(entries) ==
    LET first_time == entries[1].time
        last_time == entries[Len(entries)].time
    IN  IF first_time.ok /\ last_time.ok
        THEN "=== SESSION RECOVERY (" \o first_time.date \o " " \o first_time.hm
             \o " - " \o last_time.hm \o ") ==="
        ELSE "=== SESSION RECOVERY ==="

FxResult(content, used, skipped) == [content |-> content, used |-> used, skipped |-> skipped]

FxIdle ==
    [pc |-> "idle", exists |-> FALSE, transcript |-> << >>, char_budget |-> 0,
     truncate |-> TRUE, pos |-> 0, remaining |-> 0, entries |-> << >>, skipped |-> 0,
     kept |-> << >>, result |-> FxResult("", 0, 0), run |-> 1,
     first |-> FxResult("", 0, 0)]

\* A call filter_session_from_end(transcript_path, char_budget, truncate)
\* about to start.
FxCall(exists, transcript, char_budget, truncate) ==
    [FxIdle EXCEPT !.pc = "start", !.exists = exists, !.transcript = transcript,
                   !.char_budget = char_budget, !.truncate = truncate]

DsrIdle ==
    [pc |-> "idle", total_budget |-> 0, min_session_budget |-> 0, decay |-> <<1, 2>>,
     env |-> "", marker |-> NoneVal, log |-> << >>, has_project_dir |-> FALSE,
     files |-> [s \in Sessions |-> [exists |-> FALSE, transcript |-> << >>]],
     operations |-> << >>, session_transcripts |-> << >>, current_session_id |-> "",
     sessions |-> << >>, i |-> 0, remaining_budget |-> 0, budget_limit |-> 0,
     allocated |-> << >>, session_results |-> << >>, found |-> "", displayed |-> << >>]

RecoverIdle == fx = FxIdle /\ dsr = DsrIdle

ExtractInit ==
    /\ \E char_budget \in Budgets, truncate \in BOOLEAN :
        \/ \E transcript \in Transcripts \cup ProbeTranscripts :
              fx = FxCall(TRUE, transcript, char_budget, truncate)
        \/ fx = FxCall(FALSE, << >>, char_budget, truncate)
    /\ dsr = DsrIdle

\* A plausible slip: the count of skipped entries outlives the call.
StartLocalsKeepsSkipped(f) ==
    [f EXCEPT !.pc = "loop", !.entries = << >>, !.kept = << >>,
              !.remaining = SeedRemaining(f.char_budget), !.pos = Len(f.transcript)]

\* entries = []; remaining = char_budget - header_reserve; skipped = 0; the
\* walk starts at the last line of the file.
StartLocals(f) ==
    [f EXCEPT !.pc = "loop", !.entries = << >>, !.kept = << >>, !.skipped = 0,
              !.remaining = SeedRemaining(f.char_budget), !.pos = Len(f.transcript)]

\* A plausible slip: the walk stops at the first entry that does not fit.
StopAtEntry(f) == [f EXCEPT !.pos = 0, !.skipped = @ + 1]

\* skipped += 1; continue: the entry is passed over and the walk goes on.
SkipEntry(f) == [f EXCEPT !.pos = @ - 1, !.skipped = @ + 1]

\* filter_session_from_end: the missing transcript sentinel, or the locals
\* before the loop; reverse_readline starts at the last line.
FilterStart ==
    /\ fx.pc = "start"
    /\ fx' = IF ~fx.exists
             THEN [fx EXCEPT !.pc = "returned", !.result = FxResult("No transcript found.", 0, 0)]
             ELSE StartLocals(fx)
    /\ UNCHANGED <<dsr, notRecover>>

\* filter_session_from_end: one iteration of the loop over the lines, from
\* the end of the file.
FilterStep ==
    /\ fx.pc = "loop"
    /\ fx.pos >= 1
    /\ LET entry == Extracted[fx.transcript[fx.pos], fx.truncate]
           entry_len == EntryLen(entry)
       IN  fx' = IF ~entry.ok THEN [fx EXCEPT !.pos = @ - 1]
                 ELSE IF TooLarge(entry_len, fx.remaining) THEN SkipEntry(fx)
                 ELSE IF fx.remaining <= 0 THEN [fx EXCEPT !.pos = 0]
                 ELSE [fx EXCEPT !.pos = @ - 1, !.entries = Append(@, entry),
                                 !.kept = Append(@, fx.pos),
                                 !.remaining = @ - entry_len]
    /\ UNCHANGED <<dsr, notRecover>>

\* filter_session_from_end: after the loop, the no content sentinel, or the
\* header and the entries in chronological order, with the usage.
FilterReturn ==
    /\ fx.pc = "loop"
    /\ fx.pos = 0
    /\ LET entries == Reverse(fx.entries) IN
       fx' = IF Len(entries) = 0
             THEN [fx EXCEPT !.pc = "returned",
                      !.result = FxResult("No conversational content found in transcript.", 0, 0)]
             ELSE [fx EXCEPT !.pc = "returned",
                      !.result = FxResult(
                          JoinLines(<<SessionHeader(entries), "">> \o EntryLines(entries)),
                          fx.char_budget - fx.remaining, fx.skipped)]
    /\ UNCHANGED <<dsr, notRecover>>

\* The same call once more: filter_session_from_end with the arguments of
\* the call that has returned.
FilterCallAgain ==
    /\ fx.pc = "returned"
    /\ fx.run = 1
    /\ dsr.pc = "idle"
    /\ fx' = [fx EXCEPT !.pc = "start", !.run = 2, !.first = fx.result]
    /\ UNCHANGED <<dsr, notRecover>>

ExtractNext == FilterStart \/ FilterStep \/ FilterReturn \/ FilterCallAgain

\* ---- properties of the extractor ----

RECURSIVE SumCost(_)
\* The cost of the retained turns: len(formatted) + 2 for each.
SumCost(entries) ==
    IF Len(entries) = 0 THEN 0 ELSE EntryLen(entries[1]) + SumCost(Tail(entries))

Retained == fx.pc = "returned" /\ Len(fx.entries) > 0

\* C8: extractor budget conservation.  For every transcript and every char
\* budget, also one below the header reserve, filter_session_from_end returns
\* used <= char_budget; while turns are retained the amount taken from the
\* budget is the header reserve plus len(formatted) + 2 for every retained
\* turn, so every further retained turn raises used by exactly that much,
\* and the returned used is that amount.
C8_ExtractorBudgetConservation ==
    /\ fx.pc = "loop" =>
          /\ fx.char_budget - fx.remaining = header_reserve + SumCost(fx.entries)
          /\ \A k \in 1..Len(fx.entries) : EntryLen(fx.entries[k]) > 0
          /\ Len(fx.entries) > 0 => fx.remaining >= 0
    /\ fx.pc = "returned" =>
          /\ fx.result.used <= fx.char_budget
          /\ Len(fx.entries) > 0 =>
                fx.result.used = header_reserve + SumCost(fx.entries)
          /\ Len(fx.entries) = 0 => fx.result.used = 0

\* Two turns were retained, one was skipped as too large, and the budget was
\* not used up.
C8_Witness ==
    /\ fx.pc = "returned"
    /\ Len(fx.entries) = 2
    /\ fx.result.skipped = 1
    /\ fx.result.used < fx.char_budget
    /\ fx.result.used = header_reserve + EntryLen(fx.entries[1]) + EntryLen(fx.entries[2])

\* C9: the character budget is a ceiling on the emitted text.  Whenever at
\* least one turn is retained, the content string that
\* filter_session_from_end returns (header line, blank lines and formatted
\* turns joined by newlines) is at most char_budget characters long.
C9_ContentWithinBudget ==
    Retained => Len(fx.result.content) <= fx.char_budget

\* Turns were retained under the long header (both times known), with the
\* budget nearly used up.
C9_Witness ==
    /\ Retained
    /\ StartsWith(fx.result.content, "=== SESSION RECOVERY (")
    /\ Len(fx.entries) >= 2
    /\ fx.remaining < 10

\* The lines of the transcript from which a turn survives the filtering.
Surviving == { p \in 1..Len(fx.transcript) : Extracted[fx.transcript[p], fx.truncate].ok }

CostAt(p) == Len(Extracted[fx.transcript[p], fx.truncate].formatted) + 2

RECURSIVE SumCostAt(_)
SumCostAt(P) == IF P = {} THEN 0
                ELSE LET p == CHOOSE q \in P : TRUE IN CostAt(p) + SumCostAt(P \ {p})

\* The budget that remains when the walk from the end reaches line p.
RemainingAt(p) ==
    fx.char_budget - header_reserve - SumCostAt({q \in ListSet(fx.kept) : q > p})

RECURSIVE Ascending(_, _)
\* The entries of the lines P, in the order of the transcript.
Ascending(P, from) ==
    IF from > Len(fx.transcript) THEN << >>
    ELSE (IF from \in P THEN <<Extracted[fx.transcript[from], fx.truncate]>> ELSE << >>)
         \o Ascending(P, from + 1)

\* C13: greedy skip-not-stop selection.  Walking the surviving turns from the
\* newest to the oldest, a turn is retained iff its cost len(formatted) + 2
\* fits in the budget that remains at that moment; a turn that does not fit
\* is skipped and counted and no older turn that fits is lost by it; the
\* retained turns are emitted in the order of the transcript.
C13_GreedySkipNotStop ==
    fx.pc = "returned" /\ fx.exists =>
        /\ ListSet(fx.kept) \subseteq Surviving
        /\ \A p \in Surviving : (p \in ListSet(fx.kept)) <=> (CostAt(p) <= RemainingAt(p))
        /\ fx.skipped = Cardinality(Surviving \ ListSet(fx.kept))
        /\ Len(fx.kept) > 0 =>
              LET chronological == Ascending(ListSet(fx.kept), 1) IN
              /\ fx.result.content =
                    JoinLines(<<SessionHeader(chronological), "">> \o EntryLines(chronological))
              /\ fx.result.skipped = fx.skipped

\* A turn that did not fit was skipped between two retained turns: an older
\* turn was still retained after it.
C13_Witness ==
    /\ fx.pc = "returned"
    /\ \E p, q, r \in 1..Len(fx.transcript) :
          /\ p < q /\ q < r
          /\ p \in ListSet(fx.kept) /\ r \in ListSet(fx.kept)
          /\ q \in Surviving /\ q \notin ListSet(fx.kept)
    /\ fx.result.skipped = 1

NoTranscriptSentinel == FxResult("No transcript found.", 0, 0)
NoContentSentinel == FxResult("No conversational content found in transcript.", 0, 0)

\* C14: extractor sentinels.  A missing transcript and an existing but empty
\* one both give the "no transcript" sentinel with zero usage; a transcript
\* with content of which no turn survives the filtering or fits the budget
\* gives the "no conversational content" sentinel; the two are never
\* confused.
C14_ExtractorSentinels ==
    fx.pc = "returned" =>
        /\ (~fx.exists \/ Len(fx.transcript) = 0) => fx.result = NoTranscriptSentinel
        /\ (fx.exists /\ Len(fx.transcript) > 0 /\ Len(fx.kept) = 0)
              => fx.result = NoContentSentinel
        /\ fx.result = NoTranscriptSentinel => (~fx.exists \/ Len(fx.transcript) = 0)
        /\ fx.result = NoContentSentinel => (fx.exists /\ Len(fx.transcript) > 0)

\* ---- the filtering rules ----

IsBlank(text) == Strip(text) = ""
HasNoiseTag(text) == \E i \in 1..Len(NOISE_XML_TAGS) : Contains(NOISE_XML_TAGS[i], text)
IsInterruptionNotice(text) == StartsWith(Strip(text), "[Request interrupted by user")
NoiseText(text) == IsBlank(text) \/ HasNoiseTag(text) \/ IsInterruptionNotice(text)

\* The texts of a user turn: its string content, or its text items.
UserTextsOf(line) ==
    IF line.kind = "str" THEN {line.text}
    ELSE { line.items[i].text : i \in {j \in 1..Len(line.items) : line.items[j].type = "text"} }

IsUserTurn(line) == line.valid /\ line.type = "user"

\* A user turn all of whose content is noise.
EntirelyNoise(line) == IsUserTurn(line) /\ \A t \in UserTextsOf(line) : NoiseText(t)

NoiseLines == { p \in 1..Len(fx.transcript) : EntirelyNoise(fx.transcript[p]) }

\* C15: noise filtering.  For every transcript and budget, a USER turn whose
\* whole content is a <system-reminder> block, or any user text that
\* contains a known noise tag, is an interruption notice or is only
\* whitespace, never appears in the output of the extractor and takes
\* nothing from the budget.
C15_NoiseFiltering ==
    fx.pc = "returned" /\ fx.exists =>
        /\ \A p \in NoiseLines : p \notin Surviving /\ p \notin ListSet(fx.kept)
        /\ \A p \in 1..Len(fx.transcript) :
              IsUserTurn(fx.transcript[p]) =>
                 \A t \in UserTextsOf(fx.transcript[p]) :
                    NoiseText(t) /\ ~IsBlank(t) => ~Contains(Strip(t), fx.result.content)
        /\ fx.result.used = IF Len(fx.kept) = 0 THEN 0
                            ELSE header_reserve + SumCostAt(ListSet(fx.kept) \ NoiseLines)
        /\ fx.skipped = Cardinality((Surviving \ ListSet(fx.kept)) \ NoiseLines)

\* A noise turn stood between two turns that were retained, and only those
\* two were paid for.
C15_Witness ==
    /\ fx.pc = "returned"
    /\ Len(fx.transcript) = 3
    /\ 2 \in NoiseLines
    /\ HasNoiseTag(fx.transcript[2].text)
    /\ ~StartsWith(fx.transcript[2].text, "<")
    /\ ListSet(fx.kept) = {1, 3}
    /\ fx.result.used = header_reserve + CostAt(1) + CostAt(3)

IsAssistantTurn(line) == line.valid /\ line.type = "assistant" /\ line.kind = "list"

ToolCallsOf(line) == { i \in 1..Len(line.items) : line.items[i].type = "tool_use" }

\* Every tool call of the turn is to a filtered tool, and there is one.
OnlyFilteredCalls(line) ==
    /\ ToolCallsOf(line) # {}
    /\ \A i \in ToolCallsOf(line) : line.items[i].name \in TOOLS_TO_FILTER

\* The free text of an assistant turn, noise patterns stripped.
AssistantText(line) == StripNoise(JoinLines(AssistantTexts(line.items)), 1)

\* C16: assistant-turn filtering.  An ASSISTANT turn is dropped as 'filtered
\* tools only' exactly when it has a tool call, every tool call is to a
\* filtered tool and the turn has nothing else; a turn with free text next to
\* only-filtered tool calls is not dropped by this rule: it survives, and
\* its text is retained when it fits the budget.
C16_AssistantTurnFiltering ==
    fx.pc = "returned" /\ fx.exists =>
        \A p \in 1..Len(fx.transcript) :
            LET line == fx.transcript[p] IN
            IsAssistantTurn(line) /\ OnlyFilteredCalls(line) =>
                /\ AssistantText(line) = "" => p \notin Surviving
                /\ AssistantText(line) # "" =>
                      /\ p \in Surviving
                      /\ CostAt(p) <= RemainingAt(p) => p \in ListSet(fx.kept)

-----------------------------------------------------------------------------
(* Budget allocator: dual_source_recovery of recover_context.py *)

\* Bound: number of sessions of the log in the runs that vary the budgets.
MaxSessions == 2

\* The total budgets (config char_budget) and the floors (config
\* min_session_budget) of the runs.
TotalBudgets == {0, 150, 260, 400}
MinSessionBudgets == {0, 130, 350, 1000}

\* decay_factor, a fraction in (0, 1], as <<numerator, denominator>>.
DecayFactors == { <<1, 2>>, <<3, 4>>, <<1, 1>> }

\* The transcripts of the sessions of a run.
SessionTranscripts ==
    { <<LineFix, LineChanged, LineOk>>, <<LineOk>>,
      <<LineRerun, LineChanged, LineFix, LineFix>>, <<BadLine>> }

NoFile == [exists |-> FALSE, transcript |-> << >>]

\* The file <sid>.jsonl of the project directory: its lines, or exists
\* FALSE when there is no such file.
SessionChoices ==
    { [exists |-> TRUE, transcript |-> t] : t \in SessionTranscripts } \cup {NoFile}

\* The order in which the sessions of the budget runs were started.
SessionOrder == <<"abc", "def", "xyz">>

\* A session id of the environment that no record of the log carries.
OtherSession == "zzz"

\* current_session_id.txt exists but open or read raises; NoneVal stands for
\* no such file, any other value is the text of the file.
MarkerUnreadable == "<unreadable>"

\* get_current_session_id with the marker file consulted before the
\* environment variable.
get_current_session_id_marker_first(env, marker, operations) ==
    IF marker # NoneVal /\ marker # MarkerUnreadable /\ Strip(marker) # "" THEN Strip(marker)
    ELSE IF env # "" THEN env
    ELSE LET sid == ckpt_get_current_session_id(operations) IN
         IF sid = NoneVal THEN "" ELSE sid

\* get_current_session_id of focus_core.py: CLAUDE_SESSION_ID, else the
\* stripped content of current_session_id.txt (an exception of the read is
\* swallowed), else the session id of the latest operation that has one,
\* else ''.
get_current_session_id(env, marker, operations) ==
    IF env # "" THEN env
    ELSE IF marker # NoneVal /\ marker # MarkerUnreadable /\ Strip(marker) # ""
    THEN Strip(marker)
    ELSE LET sid == ckpt_get_current_session_id(operations) IN
         IF sid = NoneVal THEN "" ELSE sid

\* The sessions of old_sids that transcripts.get(sid) finds: those whose
\* transcript exists in the project directory.
OldWithTranscript(old_sids) ==
    SelectSeq(old_sids, LAMBDA sid : project_dir /\ sid \in transcripts)

\* focus_done.run_checkpoint_silent: load the operations; the old sessions
\* are all the session ids of the log but focus_core's current one; each
\* old session with a transcript is processed, and the processed ones are
\* handed to remove_processed_sessions unless dry_run.
RunCheckpointSilent ==
    /\ ckpt.pc = "start_done"
    /\ LET operations == load_operations(log_target)
           all_sids == get_all_session_ids_from_operations(operations)
           current_sid == get_current_session_id(ckpt.env, ckpt.marker, operations)
           old_sids == SelectSeq(all_sids, LAMBDA sid : sid # current_sid)
           nothing == Len(operations) = 0 \/ Len(old_sids) = 0
           done == IF nothing THEN NoProgress
                   ELSE ProcessSessions(OldWithTranscript(old_sids), 1, NoProgress, ckpt)
       IN  ckpt' = [ckpt EXCEPT
                !.operations = operations,
                !.before = operations,
                !.processed_sids = done.processed_sids,
                !.total_errors = done.total_errors,
                !.pending_issues = done.pending_issues,
                !.omission_results = done.omission_results,
                !.pc = IF nothing THEN "exit"
                       ELSE IF done.raised THEN "crashed"
                       ELSE IF Len(done.processed_sids) > 0 /\ ~ckpt.dry_run THEN "prune"
                       ELSE "exit"]
    /\ UNCHANGED <<log_target, log_inodes, transcripts, project_dir, clock, hook, reader,
                   reads, written, notLog>>

\* The checkpoint workflow (checkpoint_session.py main, silent) or the done
\* workflow (focus_done.py) on any log, with the override set or not and
\* the marker file missing, unreadable, blank or naming a session.
WorkflowInit ==
    /\ log_target = 1
    /\ log_inodes \in { <<log>> : log \in InitialLogs }
    /\ project_dir = TRUE
    /\ transcripts \in {Sessions, {"abc", "def"}}
    /\ clock = MaxLog
    /\ hook = << >>
    /\ \E workflow \in {"start", "start_done"}, env \in {"", "abc"},
          marker \in {NoneVal, MarkerUnreadable, "  \n", " def\n"} :
            ckpt = [CkptIdle EXCEPT !.pc = workflow, !.env = env, !.marker = marker]
    /\ reader = ReaderIdle
    /\ reads = 0
    /\ written = {log_inodes[1]}

WorkflowNext == CkptMain \/ RunCheckpointSilent \/ PruneLoad \/ PruneOpen \/ PruneWrite

RECURSIVE ExistingOf(_, _)
ExistingOf(session_ids, files) ==
    IF Len(session_ids) = 0 THEN << >>
    ELSE (IF files[session_ids[1]].exists THEN <<session_ids[1]>> ELSE << >>)
         \o ExistingOf(Tail(session_ids), files)

\* get_session_transcripts_from_operations: the sessions of the log whose
\* transcript exists, in order of first appearance; [] without a project
\* directory.
get_session_transcripts_from_operations(operations, has_project_dir, files) ==
    IF ~has_project_dir THEN << >>
    ELSE ExistingOf(get_all_session_ids_from_operations(operations), files)

RECURSIVE WithoutSession(_, _)
\* [(sid, t) for sid, t in session_transcripts_reversed if sid != current]
WithoutSession(session_ids, current_session_id) ==
    IF Len(session_ids) = 0 THEN << >>
    ELSE (IF session_ids[1] # current_session_id THEN <<session_ids[1]>> ELSE << >>)
         \o WithoutSession(Tail(session_ids), current_session_id)

\* A plausible slip: the current session is filtered, but the order of the
\* log is kept.
SessionsToAllocateOldestFirst(session_transcripts, current_session_id) ==
    IF current_session_id # ""
    THEN WithoutSession(session_transcripts, current_session_id)
    ELSE session_transcripts

\* The sessions the loop walks: newest first, the current one left out when
\* it is known.
SessionsToAllocate(session_transcripts, current_session_id) ==
    IF current_session_id # ""
    THEN WithoutSession(Reverse(session_transcripts), current_session_id)
    ELSE Reverse(session_transcripts)

\* A plausible slip: the remaining budget is divided by the decay factor.
BudgetLimitDivides(remaining_budget, min_session_budget, decay) ==
    IF remaining_budget <= min_session_budget THEN remaining_budget
    ELSE (remaining_budget * decay[2]) \div decay[1]

\* budget_limit: all that remains at or below the floor, else
\* int(remaining_budget * decay_factor).
BudgetLimit(remaining_budget, min_session_budget, decay) ==
    IF remaining_budget <= min_session_budget THEN remaining_budget
    ELSE (remaining_budget * decay[1]) \div decay[2]

\* A plausible slip: the allocated share is deducted.
DeductAllocated(remaining_budget, used, budget_limit) == remaining_budget - budget_limit

\* remaining_budget -= used
Deduct(remaining_budget, used, budget_limit) == remaining_budget - used

SessionResult(sid, content, used, budget_limit, skipped, remaining_after) ==
    [sid |-> sid, content |-> content, used |-> used, budget_limit |-> budget_limit,
     skipped |-> skipped, remaining_after |-> remaining_after]

RECURSIVE SidsOf(_)
SidsOf(results) == IF Len(results) = 0 THEN << >> ELSE <<results[1].sid>> \o SidsOf(Tail(results))

\* A run of dual_source_recovery about to start.
DsrCall(total_budget, min_session_budget, decay, env, marker, log, has_project_dir, files) ==
    [DsrIdle EXCEPT !.pc = "load", !.total_budget = total_budget,
                    !.min_session_budget = min_session_budget, !.decay = decay,
                    !.env = env, !.marker = marker, !.log = log,
                    !.has_project_dir = has_project_dir, !.files = files]

\* The transcript each session has when its file exists, in the runs that
\* vary the log.
DefaultTranscript(sid) ==
    IF sid = "abc" THEN <<LineFix, LineChanged, LineOk>>
    ELSE IF sid = "def" THEN <<LineOk>>
    ELSE <<LineRerun, LineChanged, LineFix, LineFix>>

\* The runs: either the budgets vary (one record for each of up to
\* MaxSessions sessions, any transcript for each), or the log, the existing
\* transcripts and the sources of the current session id vary.
AllocInit ==
    /\ fx = FxIdle
    /\ \/ \E n \in 0..Min(MaxSessions, Len(SessionOrder)) :
            \E total_budget \in TotalBudgets, min_session_budget \in MinSessionBudgets,
               decay \in DecayFactors, env \in {"", OtherSession},
               choice \in [1..n -> SessionChoices] :
                dsr = DsrCall(total_budget, min_session_budget, decay, env, NoneVal,
                              [k \in 1..n |-> LogLine(k, "PostToolUse", SessionOrder[k])], TRUE,
                              [s \in Sessions |->
                                  IF \E k \in 1..n : SessionOrder[k] = s
                                  THEN choice[CHOOSE k \in 1..n : SessionOrder[k] = s]
                                  ELSE NoFile])
       \/ \E n \in 0..MaxLog :
            \E kinds \in [1..n -> Sessions \cup {NoneVal}],
               existing \in SUBSET Sessions, has_project_dir \in BOOLEAN,
               env \in {"", "abc"},
               marker \in {NoneVal, MarkerUnreadable, "", "  \n", " def\n"} :
                /\ ~has_project_dir => existing = Sessions
                /\ dsr = DsrCall(400, 130, <<1, 2>>, env, marker,
                                 [i \in 1..n |-> LogLine(i, "PostToolUse", kinds[i])],
                                 has_project_dir,
                                 [s \in Sessions |->
                                     IF s \in existing
                                     THEN [exists |-> TRUE, transcript |-> DefaultTranscript(s)]
                                     ELSE NoFile])

\* dual_source_recovery, source 2 and the head of source 3: the operations
\* are loaded and the sessions with a transcript are listed.
DsrLoad ==
    /\ dsr.pc = "load"
    /\ LET operations == ParseLines(dsr.log)
           session_transcripts ==
               get_session_transcripts_from_operations(operations, dsr.has_project_dir, dsr.files)
       IN  dsr' = [dsr EXCEPT !.pc = IF Len(session_transcripts) > 0 THEN "start" ELSE "fallback",
                              !.operations = operations,
                              !.session_transcripts = session_transcripts]
    /\ UNCHANGED <<fx, notRecover>>

\* The current session is resolved, the list is reversed and filtered;
\* remaining_budget = total_budget; session_results = []
DsrStart ==
    /\ dsr.pc = "start"
    /\ LET current_session_id == get_current_session_id(dsr.env, dsr.marker, dsr.operations) IN
       dsr' = [dsr EXCEPT !.pc = "loop", !.i = 1,
                  !.current_session_id = current_session_id,
                  !.sessions = SessionsToAllocate(dsr.session_transcripts, current_session_id),
                  !.remaining_budget = dsr.total_budget,
                  !.session_results = << >>]
    /\ UNCHANGED <<fx, notRecover>>

\* One iteration up to the call of filter_session_from_end: the budget of the
\* session is computed and the extractor is called with it.
DsrAllocate ==
    /\ dsr.pc = "loop"
    /\ dsr.i <= Len(dsr.sessions)
    /\ dsr.remaining_budget > 0
    /\ LET budget_limit == BudgetLimit(dsr.remaining_budget, dsr.min_session_budget, dsr.decay)
           file == dsr.files[dsr.sessions[dsr.i]]
       IN  /\ dsr' = [dsr EXCEPT !.pc = "call", !.budget_limit = budget_limit,
                                 !.allocated = Append(@, dsr.sessions[dsr.i])]
           /\ fx' = FxCall(file.exists, file.transcript, budget_limit, TRUE)
    /\ UNCHANGED notRecover

\* The rest of the iteration: the actual usage is deducted and the result is
\* kept.
DsrDeduct ==
    /\ dsr.pc = "call"
    /\ fx.pc = "returned"
    /\ LET remaining_budget == Deduct(dsr.remaining_budget, fx.result.used, dsr.budget_limit) IN
       dsr' = [dsr EXCEPT !.pc = "loop", !.i = @ + 1,
                  !.remaining_budget = remaining_budget,
                  !.session_results = Append(@,
                      SessionResult(dsr.sessions[dsr.i], fx.result.content, fx.result.used,
                                    dsr.budget_limit, fx.result.skipped, remaining_budget))]
    /\ fx' = FxIdle
    /\ UNCHANGED notRecover

\* The loop ends at the end of the list or when nothing remains; the results
\* are reversed and shown in that order.
DsrDisplay ==
    /\ dsr.pc = "loop"
    /\ dsr.i > Len(dsr.sessions) \/ dsr.remaining_budget <= 0
    /\ dsr' = [dsr EXCEPT !.pc = "done", !.session_results = Reverse(@),
                          !.displayed = SidsOf(Reverse(dsr.session_results))]
    /\ UNCHANGED <<fx, notRecover>>

\* No session of the log has a transcript: find_transcript_path gives the
\* most recently modified transcript of the project directory, if any, and
\* the extractor is called on it with half the default budget.
DsrFallback ==
    /\ dsr.pc = "fallback"
    /\ \/ /\ dsr.has_project_dir
          /\ \E sid \in Sessions :
              /\ dsr.files[sid].exists
              /\ dsr' = [dsr EXCEPT !.pc = "fallback_call", !.found = sid,
                                    !.budget_limit = dsr.total_budget \div 2,
                                    !.allocated = <<sid>>]
              /\ fx' = FxCall(TRUE, dsr.files[sid].transcript, dsr.total_budget \div 2, TRUE)
       \/ /\ ~dsr.has_project_dir \/ \A sid \in Sessions : ~dsr.files[sid].exists
          /\ dsr' = [dsr EXCEPT !.pc = "fallback_done"]
          /\ fx' = fx
    /\ UNCHANGED notRecover

\* The transcript found by the fallback is shown.
DsrFallbackShow ==
    /\ dsr.pc = "fallback_call"
    /\ fx.pc = "returned"
    /\ dsr' = [dsr EXCEPT !.pc = "fallback_done", !.displayed = <<dsr.found>>]
    /\ fx' = FxIdle
    /\ UNCHANGED notRecover

AllocNext ==
    \/ DsrLoad \/ DsrStart \/ DsrAllocate \/ DsrDeduct \/ DsrDisplay
    \/ DsrFallback \/ DsrFallbackShow \/ FilterStart \/ FilterStep \/ FilterReturn

\* ---- properties of the allocator ----

RECURSIVE SumUsed(_)
SumUsed(results) == IF Len(results) = 0 THEN 0 ELSE results[1].used + SumUsed(Tail(results))

\* C10: allocator conservation.  Over any number of non-current sessions
\* with total budget B, the sum of the sessions' used amounts is at most B and
\* the running remaining budget is never negative (it is B less that sum).
C10_AllocatorConservation ==
    dsr.pc \in {"loop", "call", "done"} =>
        /\ dsr.remaining_budget >= 0
        /\ SumUsed(dsr.session_results) <= dsr.total_budget
        /\ dsr.remaining_budget = dsr.total_budget - SumUsed(dsr.session_results)

\* Two sessions both used budget, the second within the share left over.
C10_Witness ==
    /\ dsr.pc = "done"
    /\ Len(dsr.session_results) = 2
    /\ \A k \in 1..2 : dsr.session_results[k].used > 0
    /\ dsr.remaining_budget < dsr.total_budget \div 4

\* The results in the order of allocation (they are reversed for display).
AllocationResults ==
    IF dsr.pc = "done" THEN Reverse(dsr.session_results) ELSE dsr.session_results

\* The remaining budget before the k-th allocation.
RemainingBefore(k) ==
    IF k = 1 THEN dsr.total_budget ELSE AllocationResults[k - 1].remaining_after

\* The share the step rule gives out of a remaining budget.
RuleShare(remaining) ==
    IF remaining <= dsr.min_session_budget THEN remaining
    ELSE (remaining * dsr.decay[1]) \div dsr.decay[2]

\* C11: allocator step rule.  Each session processed receives
\* budget_limit = int(remaining * decay_factor), or all of remaining when
\* remaining <= min_session_budget; after the extraction exactly the amount
\* used (not budget_limit) is subtracted, so remaining never increases and
\* what a session left unused is there for the next, older one.
C11_AllocatorStepRule ==
    /\ dsr.pc \in {"loop", "call", "done"} =>
          /\ \A k \in 1..Len(AllocationResults) :
                LET r == AllocationResults[k] IN
                /\ r.budget_limit = RuleShare(RemainingBefore(k))
                /\ r.remaining_after = RemainingBefore(k) - r.used
                /\ r.remaining_after <= RemainingBefore(k)
          /\ dsr.remaining_budget = RemainingBefore(Len(AllocationResults) + 1)
    /\ dsr.pc = "call" =>
          /\ dsr.budget_limit = RuleShare(dsr.remaining_budget)
          /\ fx.pc # "idle" => fx.char_budget = dsr.budget_limit

\* The newest session used less than its share, and the next one was given
\* a share of more than the first allocation left over.
C11_Witness ==
    /\ dsr.pc = "done"
    /\ Len(AllocationResults) = 2
    /\ AllocationResults[1].used > 0
    /\ AllocationResults[1].used < AllocationResults[1].budget_limit
    /\ AllocationResults[2].used > 0
    /\ AllocationResults[2].budget_limit
          > RuleShare(dsr.total_budget - AllocationResults[1].budget_limit)

\* The line of the log where a session first appears (0: nowhere).
FirstAppearance(sid) ==
    IF \E i \in 1..Len(dsr.log) : dsr.log[i].session_id = sid
    THEN CHOOSE i \in 1..Len(dsr.log) :
            /\ dsr.log[i].session_id = sid
            /\ \A j \in 1..(i - 1) : dsr.log[j].session_id # sid
    ELSE 0

\* The current session as get_current_session_id resolves it.
ResolvedCurrent == get_current_session_id(dsr.env, dsr.marker, ParseLines(dsr.log))

NewestFirst(sids) ==
    \A k \in 1..(Len(sids) - 1) : FirstAppearance(sids[k]) > FirstAppearance(sids[k + 1])

NeverCurrent ==
    ResolvedCurrent # "" =>
        /\ ~InList(ResolvedCurrent, dsr.allocated)
        /\ ~InList(ResolvedCurrent, dsr.displayed)

\* C12 as stated: in every finished recovery the sessions were allocated
\* budget newest first, the current session was neither allocated nor
\* displayed, and the display order is the reverse of the allocation order.
C12_AllocationAndDisplayOrder ==
    dsr.pc \in {"done", "fallback_done"} =>
        /\ NewestFirst(dsr.allocated)
        /\ NeverCurrent
        /\ dsr.displayed = Reverse(dsr.allocated)

\* The sessions of the log with a transcript, other than the current one.
Eligible ==
    { s \in Sessions : /\ FirstAppearance(s) > 0
                       /\ dsr.files[s].exists
                       /\ s # ResolvedCurrent }

\* C12, amended: when at least one session of the log has a transcript in
\* the project directory, the sessions are allocated budget newest first
\* (reverse of first appearance in the log), only sessions of the log with a
\* transcript and never the current one, all of them unless the budget runs
\* out, and the results are displayed in exactly the reverse order.  (With
\* no such session the fallback shows the most recently modified transcript
\* of the project directory, whichever session it belongs to.)
C12_AllocationAndDisplayOrderOfLoggedSessions ==
    dsr.pc = "done" =>
        /\ NewestFirst(dsr.allocated)
        /\ NeverCurrent
        /\ dsr.displayed = Reverse(dsr.allocated)
        /\ ListSet(dsr.allocated) \subseteq Eligible
        /\ dsr.remaining_budget > 0 => ListSet(dsr.allocated) = Eligible

\* Three sessions in the log, the newest is the current one: the other two
\* were allocated newest first and are displayed oldest first.
C12_Witness ==
    /\ dsr.pc = "done"
    /\ Len(dsr.allocated) = 2
    /\ Len(dsr.session_transcripts) = 3
    /\ InList(ResolvedCurrent, dsr.session_transcripts)
    /\ dsr.displayed = <<dsr.allocated[2], dsr.allocated[1]>>
    /\ FirstAppearance(dsr.displayed[1]) < FirstAppearance(dsr.displayed[2])

-----------------------------------------------------------------------------
(* Constraint rules: constraints.py *)

\* content.count(c) for a one-character c
RECURSIVE CountChar(_, _)
CountChar(c, s) ==
    IF Len(s) = 0 THEN 0 ELSE (IF Head(s) = c THEN 1 ELSE 0) + CountChar(c, Tail(s))

IsLowerLetter(c) ==
    c \in {"a", "b", "c", "d", "e", "f", "g", "h", "i", "j", "k", "l", "m",
           "n", "o", "p", "q", "r", "s", "t", "u", "v", "w", "x", "y", "z"}
IsUpperLetter(c) == LowerChar(c) # c
IsDigit(c) == c \in {"0", "1", "2", "3", "4", "5", "6", "7", "8", "9"}

\* \w of a regular expression
IsWordChar(c) == IsLowerLetter(c) \/ IsUpperLetter(c) \/ IsDigit(c) \/ c = "_"

\* The 1-based position of the last c in s, 0 when there is none.
LastIndexOf(c, s) ==
    IF \E i \in 1..Len(s) : SubSeq(s, i, i) = c
    THEN CHOOSE i \in 1..Len(s) :
            /\ SubSeq(s, i, i) = c
            /\ \A j \in (i + 1)..Len(s) : SubSeq(s, j, j) # c
    ELSE 0

\* os.path.splitext(path)[1]: the text from the last dot of the last path
\* component, '' when that component has no dot after a leading run of dots.
SplitExt(path) ==
    LET sep == LastIndexOf("/", path)
        dot == LastIndexOf(".", path)
    IN  IF dot > sep /\ \E i \in (sep + 1)..(dot - 1) : SubSeq(path, i, i) # "."
        THEN SubSeq(path, dot, Len(path))
        ELSE ""

\* os.path.splitext(path)[0] for a path without separators
SplitRoot(name) == SubSeq(name, 1, Len(name) - Len(SplitExt(name)))

\* check_line_limit: TRUE when the content passes.
check_line_limit(content, rule_config) ==
    ~(CountChar("\n", content) + 1 > rule_config.threshold)

\* check_no_tabs
check_no_tabs(content, file_path, rule_config) ==
    IF Lower(SplitExt(file_path)) \notin rule_config.extensions THEN TRUE
    ELSE ~Contains("\t", content)

\* re.match(r'^\s*(sed|awk)\s', command)
StartsWithSedOrAwk(command) ==
    LET c == LStrip(command) IN
    /\ Len(c) >= 4
    /\ SubSeq(c, 1, 3) \in {"sed", "awk"}
    /\ IsSpace(SubSeq(c, 4, 4))

RECURSIVE RemoveDoubleBackslash(_)
\* re.sub(r'\\\\', '', command): pairs of backslashes, left to right
RemoveDoubleBackslash(s) ==
    IF Len(s) = 0 THEN ""
    ELSE IF Len(s) >= 2 /\ SubSeq(s, 1, 2) = "\\\\"
    THEN RemoveDoubleBackslash(SubSeq(s, 3, Len(s)))
    ELSE Head(s) \o RemoveDoubleBackslash(Tail(s))

RECURSIVE RemoveEscapes(_)
\* re.sub(r'\\[ntr"\'0]', '', cleaned)
RemoveEscapes(s) ==
    IF Len(s) = 0 THEN ""
    ELSE IF Len(s) >= 2 /\ Head(s) = "\\" /\ SubSeq(s, 2, 2) \in {"n", "t", "r", "\"", "'", "0"}
    THEN RemoveEscapes(SubSeq(s, 3, Len(s)))
    ELSE Head(s) \o RemoveEscapes(Tail(s))

\* check_no_backslash_path
check_no_backslash_path(command) ==
    IF StartsWithSedOrAwk(command) THEN TRUE
    ELSE ~Contains("\\", RemoveEscapes(RemoveDoubleBackslash(command)))

\* The default patterns of no_powershell, each a name between word
\* boundaries.
PS_PATTERNS ==
    << "Get-ChildItem", "Select-String", "Get-Content", "Set-Location", "New-Item",
       "Remove-Item", "Write-Host", "Invoke-WebRequest", "Invoke-Expression" >>

\* re.search(r'\bname\b', command, re.IGNORECASE)
SearchWord(name, command) ==
    \E i \in 1..(Len(command) - Len(name) + 1) :
        /\ Lower(SubSeq(command, i, i + Len(name) - 1)) = Lower(name)
        /\ i = 1 \/ ~IsWordChar(SubSeq(command, i - 1, i - 1))
        /\ i + Len(name) - 1 = Len(command)
              \/ ~IsWordChar(SubSeq(command, i + Len(name), i + Len(name)))

\* check_no_powershell, with the default patterns and check_dot_backslash
check_no_powershell(command) ==
    /\ \A k \in 1..Len(PS_PATTERNS) : ~SearchWord(PS_PATTERNS[k], command)
    /\ ~StartsWith(LStrip(command), ".\\")

\* re.search(r'^\s*cmd\s', command)
StartsWithCommand(cmd, command) ==
    LET c == LStrip(command) IN
    /\ Len(c) > Len(cmd)
    /\ SubSeq(c, 1, Len(cmd)) = cmd
    /\ IsSpace(SubSeq(c, Len(cmd) + 1, Len(cmd) + 1))

\* re.search(r'^\s*cat\s+[^|<]', command)
StartsWithCatOfFile(command) ==
    LET c == LStrip(command) IN
    /\ StartsWithCommand("cat", command)
    /\ Len(c) >= 5
    /\ SubSeq(c, 5, 5) \notin {"|", "<"}

\* The text of s up to its first newline.
FirstLine(s) ==
    IF Contains("\n", s) THEN SubSeq(s, 1, Find("\n", s)) ELSE s

\* re.search(r'^\s*find\s+\S+\s+.*-name', command)
StartsWithFindByName(command) ==
    LET c == LStrip(command) IN
    /\ StartsWithCommand("find", command)
    /\ LET a == LStrip(SubSeq(c, 5, Len(c))) IN
       \E i \in 2..Len(a) :
          /\ \A j \in 1..(i - 1) : ~IsSpace(SubSeq(a, j, j))
          /\ IsSpace(SubSeq(a, i, i))
          /\ Contains("-name", FirstLine(LStrip(SubSeq(a, i, Len(a)))))

\* check_no_bash_file_ops
check_no_bash_file_ops(command) ==
    IF Contains("<<", command) THEN TRUE
    ELSE ~ \/ StartsWithCatOfFile(command)
           \/ StartsWithCommand("head", command)
           \/ StartsWithCommand("tail", command)
           \/ StartsWithCommand("grep", command)
           \/ StartsWithCommand("rg", command)
           \/ StartsWithFindByName(command)

\* The first rule of no_hardcoded_path that applies to the extension and
\* whose regex is found in the content (0: none).  The regexes of the
\* configuration are literal texts here.
HardcodedPathRule(content, file_path, rule_config) ==
    LET hit(k) == /\ Lower(SplitExt(file_path)) \in rule_config.rules[k].extensions
                  /\ rule_config.rules[k].regex # ""
                  /\ Contains(rule_config.rules[k].regex, content)
    IN  IF \E k \in 1..Len(rule_config.rules) : hit(k)
        THEN CHOOSE k \in 1..Len(rule_config.rules) : hit(k) /\ \A j \in 1..(k - 1) : ~hit(j)
        ELSE 0

\* check_no_hardcoded_path
check_no_hardcoded_path(content, file_path, rule_config) ==
    HardcodedPathRule(content, file_path, rule_config) = 0

\* is_snake_case: ^[a-z][a-z0-9_]*$
is_snake_case(name) ==
    /\ Len(name) > 0
    /\ IsLowerLetter(Head(name))
    /\ \A i \in 2..Len(name) :
          LET c == SubSeq(name, i, i) IN IsLowerLetter(c) \/ IsDigit(c) \/ c = "_"

\* is_all_uppercase: ^[A-Z][A-Z0-9_]*$
is_all_uppercase(name) ==
    /\ Len(name) > 0
    /\ IsUpperLetter(Head(name))
    /\ \A i \in 2..Len(name) :
          LET c == SubSeq(name, i, i) IN IsUpperLetter(c) \/ IsDigit(c) \/ c = "_"

RECURSIVE SplitPath(_)
\* file_path.replace("\\", "/").split("/")
SplitPath(path) ==
    IF \E i \in 1..Len(path) : SubSeq(path, i, i) \in {"/", "\\"}
    THEN LET i == CHOOSE k \in 1..Len(path) :
                     /\ SubSeq(path, k, k) \in {"/", "\\"}
                     /\ \A j \in 1..(k - 1) : SubSeq(path, j, j) \notin {"/", "\\"}
         IN  <<SubSeq(path, 1, i - 1)>> \o SplitPath(SubSeq(path, i + 1, Len(path)))
    ELSE <<path>>

SNAKE_CASE_EXTENSIONS == {".gd", ".tscn", ".tres", ".py", ".cpp", ".h", ".hpp"}
EXCLUDE_FILES == {"CLAUDE.md", "README.md", "CHANGELOG.md", "LICENSE"}
EXCLUDE_DIRS == {".claude", ".git", ".godot", "node_modules", "__pycache__"}

\* check_snake_case_naming, with the default extensions, excluded files and
\* check_dirs
check_snake_case_naming(file_path) ==
    LET parts == SplitPath(file_path)
        filename == parts[Len(parts)]
        name == SplitRoot(filename)
    IN  IF filename \in EXCLUDE_FILES \/ StartsWith(filename, ".") THEN TRUE
        ELSE IF Lower(SplitExt(filename)) \notin SNAKE_CASE_EXTENSIONS THEN TRUE
        ELSE IF is_all_uppercase(name) THEN TRUE
        ELSE IF ~is_snake_case(name) THEN FALSE
        ELSE \A k \in 1..(Len(parts) - 1) :
                \/ parts[k] = "" \/ parts[k] \in EXCLUDE_DIRS \/ StartsWith(parts[k], ".")
                \/ is_all_uppercase(parts[k])
                \/ is_snake_case(parts[k])

\* The message of check_line_limit for a content over the threshold.
line_limit_message(content, rule_config) ==
    "Modification exceeds " \o IntStr(rule_config.threshold) \o " lines (actual: "
    \o IntStr(CountChar("\n", content) + 1) \o "), consider splitting into smaller changes"

\* The message of check_no_bash_file_ops: the first pattern of file_ops that
\* is found names the tool and the command.
bash_file_ops_message(command) ==
    LET advice(tool, cmd) == "Consider using " \o tool \o " tool instead of " \o cmd \o " command" IN
    IF StartsWithCatOfFile(command) THEN advice("Read", "cat")
    ELSE IF StartsWithCommand("head", command) THEN advice("Read", "head")
    ELSE IF StartsWithCommand("tail", command) THEN advice("Read", "tail")
    ELSE IF StartsWithCommand("grep", command) THEN advice("Grep", "grep")
    ELSE IF StartsWithCommand("rg", command) THEN advice("Grep", "rg")
    ELSE advice("Glob", "find")

\* The message of check_snake_case_naming: the file name, or the first
\* directory name, that is not snake_case.
snake_case_message(file_path) ==
    LET parts == SplitPath(file_path)
        filename == parts[Len(parts)]
        bad(k) == ~ \/ parts[k] = "" \/ parts[k] \in EXCLUDE_DIRS \/ StartsWith(parts[k], ".")
                    \/ is_all_uppercase(parts[k]) \/ is_snake_case(parts[k])
    IN  IF ~is_snake_case(SplitRoot(filename))
        THEN "Filename '" \o filename \o "' does not follow snake_case convention"
        ELSE "Directory name '"
             \o parts[CHOOSE k \in 1..(Len(parts) - 1) : bad(k) /\ \A j \in 1..(k - 1) : ~bad(j)]
             \o "' does not follow snake_case convention"

\* A plausible slip: no_tabs is taken up before line_limit.
DeclarationOrderTabsFirst ==
    << "no_tabs", "line_limit", "no_hardcoded_path", "snake_case_naming",
       "no_backslash_path", "no_powershell", "no_bash_file_ops" >>

\* The rules in the order in which check_constraints takes them up.
DeclarationOrder ==
    << "line_limit", "no_tabs", "no_hardcoded_path", "snake_case_naming",
       "no_backslash_path", "no_powershell", "no_bash_file_ops" >>

RuleNames == {DeclarationOrder[k] : k \in 1..Len(DeclarationOrder)}

\* rule_config.get("action", default): the default action of each rule.
DefaultAction(rule) ==
    IF rule \in {"no_tabs", "snake_case_naming", "no_powershell"} THEN "block" ELSE "warn"

\* tool_input of a PreToolUse event; NoneVal for a key that is absent.
ToolInputOf(new_string, content, file_path, command) ==
    [new_string |-> new_string, content |-> content, file_path |-> file_path,
     command |-> command]

\* content = tool_input.get("new_string") or tool_input.get("content", "")
\* for Edit and Write, '' for other tools
ContentOf(tool_name, tool_input) ==
    IF tool_name \notin {"Edit", "Write"} THEN ""
    ELSE IF tool_input.new_string \notin {NoneVal, ""} THEN tool_input.new_string
    ELSE IF tool_input.content = NoneVal THEN "" ELSE tool_input.content

\* file_path = tool_input.get("file_path", "") for Edit and Write
FilePathOf(tool_name, tool_input) ==
    IF tool_name \in {"Edit", "Write"} /\ tool_input.file_path # NoneVal
    THEN tool_input.file_path ELSE ""

\* command = tool_input.get("command", "") for Bash
CommandOf(tool_name, tool_input) ==
    IF tool_name = "Bash" /\ tool_input.command # NoneVal THEN tool_input.command ELSE ""

\* The condition under which check_constraints calls the check of a rule,
\* besides the rule being enabled.
RuleGuard(rule, tool_name, tool_input) ==
    IF rule \in {"line_limit", "no_tabs", "no_hardcoded_path"}
    THEN tool_name \in {"Edit", "Write"} /\ ContentOf(tool_name, tool_input) # ""
    ELSE IF rule = "snake_case_naming"
    THEN tool_name = "Write" /\ FilePathOf(tool_name, tool_input) # ""
    ELSE tool_name = "Bash" /\ CommandOf(tool_name, tool_input) # ""

\* The check function of a rule on the content, path and command given.
RunCheck(rule, content, file_path, command, rule_config) ==
    CASE rule = "line_limit" -> check_line_limit(content, rule_config)
      [] rule = "no_tabs" -> check_no_tabs(content, file_path, rule_config)
      [] rule = "no_hardcoded_path" -> check_no_hardcoded_path(content, file_path, rule_config)
      [] rule = "snake_case_naming" -> check_snake_case_naming(file_path)
      [] rule = "no_backslash_path" -> check_no_backslash_path(command)
      [] rule = "no_powershell" -> check_no_powershell(command)
      [] rule = "no_bash_file_ops" -> check_no_bash_file_ops(command)

\* The message of a check that did not pass.
CheckMessage(rule, content, file_path, command, rule_config) ==
    CASE rule = "line_limit" -> line_limit_message(content, rule_config)
      [] rule = "no_tabs" -> "Tab characters detected, use spaces for indentation"
      [] rule = "no_hardcoded_path" ->
            rule_config.rules[HardcodedPathRule(content, file_path, rule_config)].message
      [] rule = "snake_case_naming" -> snake_case_message(file_path)
      [] rule = "no_backslash_path" -> "Backslash path detected, use forward slash / instead"
      [] rule = "no_powershell" -> "PowerShell commands not allowed, use Git Bash instead"
      [] rule = "no_bash_file_ops" -> bash_file_ops_message(command)

\* The action returned with a check that did not pass; NoneVal in the
\* configuration is an absent "action" key.
CheckAction(rule, content, file_path, rule_config) ==
    LET configured ==
            IF rule = "no_hardcoded_path"
            THEN rule_config.rules[HardcodedPathRule(content, file_path, rule_config)].action
            ELSE rule_config.action
    IN  IF configured = NoneVal THEN DefaultAction(rule) ELSE configured

Allowed(evaluated) ==
    [allowed |-> TRUE, message |-> NoneVal, action |-> NoneVal, evaluated |-> evaluated]

RECURSIVE RunRules(_, _, _, _, _, _)
\* The chain of checks from the k-th rule of the order on: the first check
\* that does not pass returns; evaluated lists the checks that were called.
RunRules(order, k, tool_name, tool_input, rules, evaluated) ==
    IF k > Len(order) THEN Allowed(evaluated)
    ELSE LET rule == order[k]
             content == ContentOf(tool_name, tool_input)
             file_path == FilePathOf(tool_name, tool_input)
             command == CommandOf(tool_name, tool_input)
         IN  IF ~(rules[rule].enabled /\ RuleGuard(rule, tool_name, tool_input))
             THEN RunRules(order, k + 1, tool_name, tool_input, rules, evaluated)
             ELSE IF RunCheck(rule, content, file_path, command, rules[rule])
             THEN RunRules(order, k + 1, tool_name, tool_input, rules, Append(evaluated, rule))
             ELSE [allowed |-> FALSE,
                   message |-> CheckMessage(rule, content, file_path, command, rules[rule]),
                   action |-> CheckAction(rule, content, file_path, rules[rule]),
                   evaluated |-> Append(evaluated, rule)]

\* check_constraints(tool_name, tool_input, config)
check_constraints(tool_name, tool_input, config) ==
    IF ~config.enabled THEN Allowed(<< >>)
    ELSE RunRules(DeclarationOrder, 1, tool_name, tool_input, config.rules, << >>)

\* format_constraint_message
format_constraint_message(message, action) ==
    IF action = "block" THEN "[BLOCK] " \o message
    ELSE IF action = "warn" THEN "[WARN] " \o message
    ELSE "[REMIND] " \o message

\* How the input of a call departs from the documented shape: nothing, the
\* constraints block is not a mapping, its "rules" are not a mapping, the
\* configuration of one rule is not a mapping, tool_input is not a mapping,
\* or the regex of the hardcoded-path rule does not compile.
Malformed(kind, rule) == [kind |-> kind, rule |-> rule]
WellFormed == Malformed("none", NoneVal)
Malformations ==
    { Malformed("config_not_mapping", NoneVal), Malformed("rules_not_mapping", NoneVal),
      Malformed("tool_input_not_mapping", NoneVal), Malformed("bad_regex", NoneVal) }
    \cup { Malformed("rule_not_mapping", rule) : rule \in RuleNames }

RECURSIVE RaisesFrom(_, _, _, _, _, _)
\* The chain of checks from the k-th rule on raises: rule_config.get on a
\* rule configuration that is not a mapping raises AttributeError, re.search
\* on a regex that does not compile raises re.error; a rule that fails
\* before returns first.
RaisesFrom(malformed, order, k, tool_name, tool_input, rules) ==
    IF k > Len(order) THEN FALSE
    ELSE LET rule == order[k]
             content == ContentOf(tool_name, tool_input)
             file_path == FilePathOf(tool_name, tool_input)
             command == CommandOf(tool_name, tool_input)
         IN  IF malformed = Malformed("rule_not_mapping", rule) THEN TRUE
             ELSE IF ~(rules[rule].enabled /\ RuleGuard(rule, tool_name, tool_input))
             THEN RaisesFrom(malformed, order, k + 1, tool_name, tool_input, rules)
             ELSE IF /\ rule = "no_hardcoded_path"
                     /\ malformed.kind = "bad_regex"
                     /\ Lower(SplitExt(file_path)) \in rules[rule].rules[1].extensions
             THEN TRUE
             ELSE IF RunCheck(rule, content, file_path, command, rules[rule])
             THEN RaisesFrom(malformed, order, k + 1, tool_name, tool_input, rules)
             ELSE FALSE

\* check_constraints raises instead of returning.
check_constraints_raises(malformed, tool_name, tool_input, config) ==
    IF malformed.kind = "config_not_mapping" THEN TRUE
    ELSE IF ~config.enabled THEN FALSE
    ELSE IF malformed.kind = "tool_input_not_mapping"
    THEN tool_name \in {"Edit", "Write", "Bash"}
    ELSE IF malformed.kind = "rules_not_mapping" THEN TRUE
    ELSE RaisesFrom(malformed, DeclarationOrder, 1, tool_name, tool_input, config.rules)

-----------------------------------------------------------------------------
(* The PreToolUse hook: focus_hook.py main, "pre" branch *)

\* The threshold of line_limit in the sample configurations.
LineThreshold == 2

\* The actions a configuration gives to its rules; NoneVal leaves the
\* "action" key out, so that each rule has its default.
ActionProfiles == {NoneVal, "block", "warn", "remind"}

\* The configuration of one rule.
RuleConfig(rule, enabled, action) ==
    CASE rule = "line_limit" ->
            [enabled |-> enabled, action |-> action, threshold |-> LineThreshold]
      [] rule = "no_tabs" ->
            [enabled |-> enabled, action |-> action,
             extensions |-> {".gd", ".py", ".cpp", ".h", ".hpp", ".tscn", ".tres"}]
      [] rule = "no_hardcoded_path" ->
            [enabled |-> enabled,
             rules |-> << [extensions |-> {".py"}, regex |-> "C:/Users",
                           message |-> "Hardcoded user path", action |-> action] >>]
      [] OTHER -> [enabled |-> enabled, action |-> action]

\* CONFIG.get("constraints", {}) with the rules of enabled_rules enabled.
ConstraintsConfig(enabled, enabled_rules, action) ==
    [enabled |-> enabled,
     rules |-> [rule \in RuleNames |-> RuleConfig(rule, rule \in enabled_rules, action)]]

ToolCall(tool_name, tool_input) == [tool_name |-> tool_name, tool_input |-> tool_input]

EditOf(file_path, new_string) ==
    ToolCall("Edit", ToolInputOf(new_string, NoneVal, file_path, NoneVal))

WriteOf(file_path, content) ==
    ToolCall("Write", ToolInputOf(NoneVal, content, file_path, NoneVal))

BashOf(command) ==
    ToolCall("Bash", ToolInputOf(NoneVal, NoneVal, NoneVal, command))

\* Calls used by name in the properties.
EditPyWithTab == EditOf("src/mod.py", "def f():\n\treturn 1")
EditTxtWithTab == EditOf("notes.txt", "def f():\n\treturn 1")
EditLongWithTab == EditOf("src/mod.py", "def f():\n\tx = 1\n\treturn x")
EditBadName == EditOf("src/BadName.py", "x = 1")
WriteBadName == WriteOf("src/BadName.py", "x = 1")

\* The tool calls the hook is run on.
PreToolCalls ==
    { EditPyWithTab, EditTxtWithTab, EditLongWithTab, EditBadName, WriteBadName,
      EditOf("a.py", "x = 1"),
      WriteOf("MyFile.py", "p = 'C:/Users/me'\n\tq = 1\nr = 2"),
      WriteOf("BadDir/ok_name.py", ""),
      WriteOf("README.md", "a\nb\nc"),
      BashOf("ls -la"),
      BashOf("cat C:\\dir\\file.txt"),
      BashOf("Get-ChildItem .\\src"),
      BashOf("grep -r foo ."),
      BashOf("sed 's/\\n/ /' f.txt"),
      ToolCall("NotebookEdit", ToolInputOf("a\tb", NoneVal, "Bad.py", NoneVal)) }

\* START_CONFIG as far as confirm-before-modify reads it, with the answer
\* the confirmation check would give for the file.
ConfirmCase(modify_tools, enabled, use_haiku, confirmed) ==
    [modify_tools |-> modify_tools, enabled |-> enabled, use_haiku |-> use_haiku,
     confirmed |-> confirmed]

ConfirmCases ==
    { ConfirmCase({}, TRUE, TRUE, FALSE),
      ConfirmCase({"Write", "Edit"}, FALSE, TRUE, FALSE),
      ConfirmCase({"Write", "Edit"}, TRUE, FALSE, FALSE),
      ConfirmCase({"Write", "Edit"}, TRUE, TRUE, TRUE),
      ConfirmCase({"Write", "Edit"}, TRUE, TRUE, FALSE) }

\* handle_confirm_before_modify: "none" when it returns without output,
\* "remind" when it adds the reminder, "deny" when it denies and exits.
handle_confirm_before_modify(tool_name, start_config) ==
    IF tool_name \notin start_config.modify_tools \/ tool_name = "Bash" THEN "none"
    ELSE IF ~start_config.enabled THEN "none"
    ELSE IF ~start_config.use_haiku THEN "remind"
    ELSE IF start_config.confirmed THEN "none"
    ELSE "deny"

\* tool_input.get("file_path", "unknown")
CurrentFile(tool_input) ==
    IF tool_input.file_path = NoneVal THEN "unknown" ELSE tool_input.file_path

\* What one run of the hook prints and how it exits: decision is the
\* permissionDecision printed ("none" when no decision is printed), context
\* the messages flushed as additionalContext.
HookOutput(checked, result, decision, reason, context, exit_code) ==
    [checked |-> checked, result |-> result, decision |-> decision, reason |-> reason,
     context |-> context, exit_code |-> exit_code]

\* main for the "pre" hook on a tool that is not a search tool.
PreMain(focus_session_active, call, constraints_config, start_config) ==
    IF ~focus_session_active
    THEN HookOutput(FALSE, Allowed(<< >>), "none", NoneVal, << >>, 0)
    ELSE LET r == check_constraints(call.tool_name, call.tool_input, constraints_config)
             failing == ~r.allowed /\ r.message \notin {NoneVal, ""}
             formatted_msg == format_constraint_message(r.message, r.action)
             pending == IF failing THEN << formatted_msg >> ELSE << >>
             confirm == handle_confirm_before_modify(call.tool_name, start_config)
         IN  IF failing /\ r.action = "block"
             THEN HookOutput(TRUE, r, "deny", formatted_msg, << >>, 1)
             ELSE IF confirm = "deny"
             THEN HookOutput(TRUE, r, "deny",
                             "[Read Before Decide] Please propose changes for ["
                             \o CurrentFile(call.tool_input)
                             \o "] and wait for user confirmation.", << >>, 1)
             ELSE IF confirm = "remind"
             THEN HookOutput(TRUE, r, "none", NoneVal,
                             Append(pending, "[Confirm Before Modify] About to modify: "
                                    \o CurrentFile(call.tool_input)
                                    \o "\nEnsure your execution plan has been approved by the user before proceeding."),
                             0)
             ELSE HookOutput(TRUE, r, "none", NoneVal, pending, 0)

\* handle_confirm_before_modify raises: tool_input.get("file_path", ...) on
\* a tool_input that is not a mapping, once the tool and the configuration
\* let the function go that far.
confirm_raises(malformed, tool_name, start_config) ==
    /\ malformed.kind = "tool_input_not_mapping"
    /\ tool_name \in start_config.modify_tools /\ tool_name # "Bash"
    /\ start_config.enabled

\* main for the "pre" hook on input that may be malformed. An exception
\* raised in the pre branch is not caught: after the finally clause has
\* flushed the pending messages the interpreter prints the traceback to
\* standard error and the process ends with status 1, without a decision.
PreMainOn(malformed, focus_session_active, call, constraints_config, start_config) ==
    IF ~focus_session_active
    THEN PreMain(focus_session_active, call, constraints_config, start_config)
    ELSE IF check_constraints_raises(malformed, call.tool_name, call.tool_input,
                                     constraints_config)
    THEN HookOutput(TRUE, Allowed(<< >>), "none", NoneVal, << >>, 1)
    ELSE LET out == PreMain(focus_session_active, call, constraints_config, start_config) IN
         IF out.decision # "deny"
            /\ confirm_raises(malformed, call.tool_name, start_config)
         THEN HookOutput(TRUE, out.result, "none", NoneVal, out.context, 1)
         ELSE out

PreIdle ==
    [pc |-> "idle", focus_session_active |-> FALSE, call |-> EditOf("", ""),
     constraints_config |-> ConstraintsConfig(FALSE, {}, NoneVal),
     start_config |-> ConfirmCase({}, FALSE, FALSE, FALSE),
     malformed |-> WellFormed,
     out |-> HookOutput(FALSE, Allowed(<< >>), "none", NoneVal, << >>, 0)]

ConstraintIdle == pre = PreIdle

\* One hook process is about to run on a tool call.
ConstraintInit ==
    \E focus_session_active \in BOOLEAN, call \in PreToolCalls, enabled \in BOOLEAN,
       enabled_rules \in SUBSET RuleNames, action \in ActionProfiles,
       start_config \in ConfirmCases :
        pre = [PreIdle EXCEPT !.pc = "start",
                              !.focus_session_active = focus_session_active,
                              !.call = call,
                              !.constraints_config =
                                  ConstraintsConfig(enabled, enabled_rules, action),
                              !.start_config = start_config]

\* The rule sets of the configurations that come with malformed input.
MalformedRuleSets ==
    { {}, RuleNames, {"no_tabs"}, {"no_hardcoded_path"}, {"line_limit", "no_hardcoded_path"} }

\* One hook process is about to run on input that is malformed in one way.
MalformedInit ==
    \E malformed \in Malformations, focus_session_active \in BOOLEAN, call \in PreToolCalls,
       enabled \in BOOLEAN, enabled_rules \in MalformedRuleSets,
       action \in {NoneVal, "warn"}, start_config \in ConfirmCases :
        pre = [PreIdle EXCEPT !.pc = "start",
                              !.malformed = malformed,
                              !.focus_session_active = focus_session_active,
                              !.call = call,
                              !.constraints_config =
                                  ConstraintsConfig(enabled, enabled_rules, action),
                              !.start_config = start_config]

\* The hook runs to its exit.
PreToolUse ==
    /\ pre.pc = "start"
    /\ pre' = [pre EXCEPT !.pc = "exited",
                          !.out = PreMainOn(pre.malformed, pre.focus_session_active,
                                            pre.call, pre.constraints_config,
                                            pre.start_config)]
    /\ UNCHANGED notConstraint

ConstraintNext == PreToolUse

-----------------------------------------------------------------------------
(* One hook process: focus_hook.py main for every hook type, with what it   *)
(* prints on standard output and its exit status                           *)

\* The exit status of a process that has not ended yet.
Running == 0 - 1

\* The locals of a run: the messages collected (by tag), the JSON objects
\* printed so far (by kind), the exit status, the hook types handed to
\* record_operation and appended, the lines added to error.log, and what
\* each state file loaded ("unread", "default", "stored").
StateFiles == {"counter", "failure_counts", "confirm_state"}

Started ==
    [pending |-> << >>, stdout |-> << >>, exit_code |-> Running, recorded |-> << >>,
     logged |-> 0, loaded |-> [f \in StateFiles |-> "unread"], strike |-> 0]

Live(st) == st.exit_code = Running

\* sys.exit(code): SystemExit unwinds to the finally clause of main.
SysExit(st, code) == IF Live(st) THEN [st EXCEPT !.exit_code = code] ELSE st

\* _fatal_error: print {"decision": "block", "reason": "[FATAL] ..."} and
\* sys.exit(2).
FatalError(st) ==
    IF Live(st) THEN SysExit([st EXCEPT !.stdout = Append(@, "fatal")], 2) ELSE st

\* An exception nothing catches: the interpreter prints the traceback on
\* standard error and ends with status 1.
Uncaught(st) == SysExit(st, 1)

\* Logger.error: append to error.log; _append turns a failure of the write
\* into _fatal_error.
LoggerError(st, faults) ==
    IF ~Live(st) THEN st
    ELSE IF "error_log" \in faults THEN FatalError(st)
    ELSE [st EXCEPT !.logged = @ + 1]

\* output_message: collect the message for flush_output.
OutputMessage(st, tag) ==
    IF Live(st) THEN [st EXCEPT !.pending = Append(@, tag)] ELSE st

\* output_error(message, "PreToolUse", block=True, logger) followed by
\* sys.exit(1): log the error, print the deny decision, clear the pending
\* messages.
DenyAndExit(st, faults) ==
    LET l == LoggerError(st, faults) IN
    IF ~Live(l) THEN l
    ELSE SysExit([l EXCEPT !.stdout = Append(@, "deny"), !.pending = << >>], 1)

\* flush_output: print the pending messages as one additionalContext object.
FlushOutput(st) ==
    IF st.pending = << >> THEN st
    ELSE [st EXCEPT !.stdout = Append(@, "context"), !.pending = << >>]

\* The finally clause of main and the end of the process.
Finally(st) ==
    LET f == FlushOutput(st) IN
    [f EXCEPT !.exit_code = IF @ = Running THEN 0 ELSE @]

\* load_counter, load_failure_counts, load_confirm_state: the default value
\* when the file is absent; when it does not parse, logger.error and the
\* default value.
LoadStateFile(st, faults, name, file) ==
    IF ~Live(st) THEN st
    ELSE IF file = "absent" THEN [st EXCEPT !.loaded[name] = "default"]
    ELSE IF file = "valid" THEN [st EXCEPT !.loaded[name] = "stored"]
    ELSE LET l == LoggerError(st, faults) IN
         IF Live(l) THEN [l EXCEPT !.loaded[name] = "default"] ELSE l

\* save_counter, save_failure_counts: atomic_write_json, whose exception
\* the caller does not catch.
SaveStateFile(st, faults) ==
    IF Live(st) /\ "state_write" \in faults THEN Uncaught(st) ELSE st

\* save_confirm_state: atomic_write_json inside try/except with logger.error.
save_confirm_state(st, faults) ==
    IF Live(st) /\ "state_write" \in faults THEN LoggerError(st, faults) ELSE st

\* record_operation(stdin_data, hook_type): nothing without stdin data; the
\* record is appended, or the exception of the write is logged.
record_operation(st, faults, stdin, hook_type) ==
    IF ~Live(st) \/ ~stdin THEN st
    ELSE IF "state_write" \in faults THEN LoggerError(st, faults)
    ELSE [st EXCEPT !.recorded = Append(@, hook_type)]

\* The count stored for the operation key in a valid failure-counts file.
StoredStrikes == 2

\* check_and_update_strikes: the counts are what load_failure_counts
\* returned; a failure increments and saves, and main collects the message.
CheckStrikes(st, faults, in) ==
    LET l == LoadStateFile(st, faults, "failure_counts", in.failure_file)
        before == IF Live(l) /\ l.loaded["failure_counts"] = "stored" THEN StoredStrikes ELSE 0
    IN  IF ~Live(l) THEN l
        ELSE IF in.failure
        THEN LET saved == SaveStateFile([l EXCEPT !.strike = before + 1], faults)
             IN  OutputMessage(saved, "strike")
        ELSE IF before > 0 THEN SaveStateFile(l, faults) ELSE l

\* handle_confirm_before_modify: nothing for a tool outside MODIFY_TOOLS or
\* with the feature off; the reminder in reminder mode; else the stored
\* confirmations and the answer of check_user_confirmation, which logs an
\* error of the API call and then allows.
ConfirmBeforeModify(st, faults, in) ==
    IF ~Live(st) \/ in.tool_class # "modify" \/ in.cbm = "off" THEN st
    ELSE IF in.cbm = "remind" THEN OutputMessage(st, "confirm_before_modify")
    ELSE LET l == LoadStateFile(st, faults, "confirm_state", in.confirm_file) IN
         IF in.answer = "listed" /\ l.loaded["confirm_state"] = "stored" THEN l
         ELSE IF in.answer = "denied" THEN DenyAndExit(l, faults)
         ELSE IF in.answer = "confirmed" THEN save_confirm_state(l, faults)
         ELSE IF in.answer = "api_error" THEN LoggerError(l, faults)
         ELSE l

\* increment_and_check_recite / increment_and_check_counter: load the
\* counter, collect the message when the threshold is reached, save.
CountAndRemind(st, faults, in, tag) ==
    LET l == LoadStateFile(st, faults, "counter", in.counter_file)
        m == IF in.threshold_reached THEN OutputMessage(l, tag) ELSE l
    IN  SaveStateFile(m, faults)

\* main, "pre" branch
PreBranch(st, faults, in) ==
    LET constraints ==
            IF ~in.stdin THEN st
            ELSE IF in.constraint = "raise" THEN Uncaught(st)
            ELSE IF in.constraint = "block" THEN DenyAndExit(st, faults)
            ELSE IF in.constraint = "warn" THEN OutputMessage(st, "constraint")
            ELSE st
        confirm == IF in.stdin THEN ConfirmBeforeModify(constraints, faults, in)
                   ELSE constraints
    IN  IF in.tool_class = "search" THEN CountAndRemind(confirm, faults, in, "recite")
        ELSE confirm

\* main, "post" branch
PostBranch(st, faults, in) ==
    LET strikes == IF in.stdin THEN CheckStrikes(st, faults, in) ELSE st
        recorded == record_operation(strikes, faults, in.stdin, "PostToolUse")
    IN  IF in.tool_class = "search" THEN CountAndRemind(recorded, faults, in, "info_check")
        ELSE IF in.tool_class = "modify" THEN OutputMessage(recorded, "remind_update")
        ELSE IF in.tool_class = "bash" /\ in.stdin /\ in.git_commit
        THEN OutputMessage(recorded, "commit_check")
        ELSE recorded

\* main, "user" branch
UserBranch(st, faults, in) ==
    record_operation(save_confirm_state(st, faults), faults, in.stdin, "UserPromptSubmit")

\* main, "stop" branch
StopBranch(st, faults, in) == record_operation(st, faults, in.stdin, "Stop")

\* check_session_start: write the plugin root and the session id (an
\* exception of the writes is logged), then collect the notice when a focus
\* session file exists.
check_session_start(st, faults, in) ==
    LET w == IF "state_write" \in faults THEN LoggerError(st, faults) ELSE st IN
    IF in.focus_session_active THEN OutputMessage(w, "session_start") ELSE w

\* main: load_config is fatal on a configuration file that does not parse;
\* session-start always runs; the other hooks return at once without an
\* active focus session; the finally clause flushes.
Main(in) ==
    IF in.config_file = "corrupt" THEN FatalError(Started)
    ELSE IF in.hook = "session-start"
    THEN Finally(check_session_start(Started, in.faults, in))
    ELSE IF ~in.focus_session_active THEN Finally(Started)
    ELSE Finally(CASE in.hook = "pre" -> PreBranch(Started, in.faults, in)
                   [] in.hook = "post" -> PostBranch(Started, in.faults, in)
                   [] in.hook = "user" -> UserBranch(Started, in.faults, in)
                   [] in.hook = "stop" -> StopBranch(Started, in.faults, in))

\* The inputs of a process; a field a hook type does not read keeps the
\* value it has here.
NoInput ==
    [hook |-> "stop", focus_session_active |-> FALSE, stdin |-> FALSE,
     config_file |-> "valid", faults |-> {}, tool_class |-> "other",
     constraint |-> "pass", cbm |-> "off", confirm_file |-> "absent",
     answer |-> "allowed", counter_file |-> "absent", threshold_reached |-> FALSE,
     failure |-> FALSE, failure_file |-> "absent", git_commit |-> FALSE]

ProcIdle == [pc |-> "idle", in |-> NoInput, out |-> Started]
ProcessIdle == proc = ProcIdle

FileStates == {"absent", "valid", "corrupt"}
FaultSets == SUBSET {"error_log", "state_write"}
ToolClasses == {"search", "modify", "bash", "other"}

\* A process is about to run: a hook type with the inputs its branch reads.
ProcessInit ==
    \E focus_session_active \in BOOLEAN, stdin \in BOOLEAN, faults \in FaultSets,
       config_file \in {"valid", "corrupt"} :
      LET base == [NoInput EXCEPT !.focus_session_active = focus_session_active,
                                  !.stdin = stdin, !.faults = faults,
                                  !.config_file = config_file]
      IN  \/ \E hook_arg \in {"session-start", "pre", "post", "user", "stop"} :
                proc = [ProcIdle EXCEPT !.pc = "start",
                                        !.in = [base EXCEPT !.hook = hook_arg]]
          \/ \E tool_class \in ToolClasses, constraint \in {"pass", "warn", "block", "raise"},
                cbm \in {"off", "remind", "haiku"}, confirm_file \in FileStates,
                answer \in {"allowed", "listed", "confirmed", "denied", "api_error"},
                counter_file \in FileStates, threshold_reached \in BOOLEAN :
                /\ config_file = "valid" /\ focus_session_active
                /\ cbm # "haiku" => (confirm_file = "absent" /\ answer = "allowed")
                /\ tool_class # "search" => (counter_file = "absent" /\ ~threshold_reached)
                /\ proc = [ProcIdle EXCEPT !.pc = "start",
                             !.in = [base EXCEPT !.hook = "pre", !.tool_class = tool_class,
                                       !.constraint = constraint, !.cbm = cbm,
                                       !.confirm_file = confirm_file, !.answer = answer,
                                       !.counter_file = counter_file,
                                       !.threshold_reached = threshold_reached]]
          \/ \E tool_class \in ToolClasses, failure \in BOOLEAN, failure_file \in FileStates,
                counter_file \in FileStates, threshold_reached \in BOOLEAN,
                git_commit \in BOOLEAN :
                /\ config_file = "valid" /\ focus_session_active
                /\ tool_class # "search" => (counter_file = "absent" /\ ~threshold_reached)
                /\ tool_class # "bash" => ~git_commit
                /\ proc = [ProcIdle EXCEPT !.pc = "start",
                             !.in = [base EXCEPT !.hook = "post", !.tool_class = tool_class,
                                       !.failure = failure, !.failure_file = failure_file,
                                       !.git_commit = git_commit,
                                       !.counter_file = counter_file,
                                       !.threshold_reached = threshold_reached]]

\* focus_hook.py --hook session-start runs to its exit.
RunSessionStart ==
    /\ proc.pc = "start"
    /\ proc.in.hook = "session-start"
    /\ proc' = [proc EXCEPT !.pc = "exited", !.out = Main(proc.in)]
    /\ UNCHANGED notProcess

\* focus_hook.py --hook pre runs to its exit.
RunPre ==
    /\ proc.pc = "start"
    /\ proc.in.hook = "pre"
    /\ proc' = [proc EXCEPT !.pc = "exited", !.out = Main(proc.in)]
    /\ UNCHANGED notProcess

\* focus_hook.py --hook post runs to its exit.
RunPost ==
    /\ proc.pc = "start"
    /\ proc.in.hook = "post"
    /\ proc' = [proc EXCEPT !.pc = "exited", !.out = Main(proc.in)]
    /\ UNCHANGED notProcess

\* focus_hook.py --hook user runs to its exit.
RunUser ==
    /\ proc.pc = "start"
    /\ proc.in.hook = "user"
    /\ proc' = [proc EXCEPT !.pc = "exited", !.out = Main(proc.in)]
    /\ UNCHANGED notProcess

\* focus_hook.py --hook stop runs to its exit.
RunStop ==
    /\ proc.pc = "start"
    /\ proc.in.hook = "stop"
    /\ proc' = [proc EXCEPT !.pc = "exited", !.out = Main(proc.in)]
    /\ UNCHANGED notProcess

ProcessNext == RunSessionStart \/ RunPre \/ RunPost \/ RunUser \/ RunStop

-----------------------------------------------------------------------------
(* focus_core.py check_and_trigger_reminders and reminder_state.json *)

\* A key the configuration of a file leaves out.
Missing == 0 - 1

\* file_cfg.get("time_minutes", 20), file_cfg.get("turns", 15)
TimeMinutesDefault == 20
TurnsDefault == 15

GetOr(value, default) == IF value = Missing THEN default ELSE value

WatchedFiles == {"plan.md", "notes.md"}

\* state.get(file_path, {"last_reminder_time": 0, "turns_since_reminder": 0})
NoFileState == [last_reminder_time |-> 0, turns_since_reminder |-> 0]

\* The trigger condition of one configured file: by mode, on the minutes
\* elapsed since the last reminder ((current_time - last_time) / 60 >=
\* time_minutes) and on the turns counted with this call; a file never
\* reminded (last_time == 0) always triggers.
ShouldRemind(file_cfg, file_state, current_time) ==
    LET mode == IF file_cfg.mode = NoneVal THEN "both" ELSE file_cfg.mode
        time_minutes == GetOr(file_cfg.time_minutes, TimeMinutesDefault)
        turns == GetOr(file_cfg.turns, TurnsDefault)
        last_time == file_state.last_reminder_time
        turns_count == file_state.turns_since_reminder + 1
        elapsed == current_time - last_time >= time_minutes * 60
    IN  \/ last_time = 0
        \/ mode = "time" /\ elapsed
        \/ mode = "turns" /\ turns_count >= turns
        \/ mode = "both" /\ (elapsed \/ turns_count >= turns)

\* A reset that happens only when the file was read.
StateAfterDueIfRead(file_state, current_time, available) ==
    IF available = "present"
    THEN [last_reminder_time |-> current_time, turns_since_reminder |-> 0]
    ELSE [file_state EXCEPT !.turns_since_reminder = @ + 1]

\* The state of a file whose reminder is due: reset regardless of file
\* existence.
StateAfterDue(file_state, current_time, available) ==
    [last_reminder_time |-> current_time, turns_since_reminder |-> 0]

RECURSIVE RemindLoop(_, _, _, _, _)
\* The loop over files_config from entry k on: the state and the results
\* (the files whose content was read) after it.
RemindLoop(files_config, k, acc, current_time, available) ==
    IF k > Len(files_config) THEN acc
    ELSE LET file_cfg == files_config[k]
             file_path == file_cfg.file
             file_state == acc.state[file_path]
             due == ShouldRemind(file_cfg, file_state, current_time)
             after ==
                 IF due
                 THEN [state |-> [acc.state EXCEPT ![file_path] =
                                     StateAfterDue(file_state, current_time,
                                                   available[file_path])],
                       results |-> IF available[file_path] = "present"
                                   THEN Append(acc.results, file_path)
                                   ELSE acc.results]
                 ELSE [state |-> [acc.state EXCEPT ![file_path].turns_since_reminder = @ + 1],
                       results |-> acc.results]
         IN  IF file_path = "" THEN RemindLoop(files_config, k + 1, acc, current_time, available)
             ELSE RemindLoop(files_config, k + 1, after, current_time, available)

\* check_and_trigger_reminders(config): [] and no change when reminders are
\* disabled or no file is configured; else the loop, and the state saved.
check_and_trigger_reminders(config, state, current_time, available) ==
    IF ~config.enabled \/ Len(config.files) = 0
    THEN [state |-> state, results |-> << >>]
    ELSE RemindLoop(config.files, 1, [state |-> state, results |-> << >>],
                    current_time, available)

NoReminders == [enabled |-> FALSE, files |-> << >>]

RemIdle ==
    [pc |-> "idle", config |-> NoReminders, clock |-> 0, calls |-> 0, ticks |-> 0,
     state |-> [f \in WatchedFiles |-> NoFileState],
     before |-> [f \in WatchedFiles |-> NoFileState],
     available |-> [f \in WatchedFiles |-> "present"],
     current_time |-> 0, results |-> << >>]
ReminderIdle == rem = RemIdle

MaxRemCalls == 4
MaxRemTicks == 3

\* time.time() of the first call, and the steps the clock makes, in seconds.
ClockStart == 1000
ClockSteps == {30, 600}

FileConfig(file, mode, time_minutes, turns) ==
    [file |-> file, mode |-> mode, time_minutes |-> time_minutes, turns |-> turns]

\* The reminders configuration: disabled, without files, one file in any
\* mode with or without its thresholds, or two files; the state file does
\* not exist yet.
ReminderInit ==
    \E config \in
        {NoReminders, [enabled |-> TRUE, files |-> << >>],
         [enabled |-> TRUE,
          files |-> <<FileConfig("plan.md", "turns", Missing, 2),
                      FileConfig("notes.md", "time", 1, Missing)>>]}
        \cup { [enabled |-> TRUE, files |-> <<FileConfig("plan.md", mode, time_minutes, turns)>>] :
                 mode \in {"time", "turns", "both", "never", NoneVal},
                 time_minutes \in {1, Missing}, turns \in {2, Missing} } :
        rem = [RemIdle EXCEPT !.pc = "ready", !.config = config, !.clock = ClockStart]

\* Time passes between two calls.
RemTick ==
    /\ rem.pc = "ready"
    /\ rem.ticks < MaxRemTicks
    /\ \E step \in ClockSteps :
        rem' = [rem EXCEPT !.clock = @ + step, !.ticks = @ + 1]
    /\ UNCHANGED notReminder

\* One call of check_and_trigger_reminders at the current time; each
\* watched file is there, missing, or not readable.
CheckReminders ==
    /\ rem.pc = "ready"
    /\ rem.calls < MaxRemCalls
    /\ \E available \in [WatchedFiles -> {"present", "missing", "unreadable"}] :
        LET r == check_and_trigger_reminders(rem.config, rem.state, rem.clock, available) IN
        rem' = [rem EXCEPT !.calls = @ + 1, !.before = rem.state, !.state = r.state,
                           !.available = available, !.current_time = rem.clock,
                           !.results = r.results]
    /\ UNCHANGED notReminder

ReminderNext == RemTick \/ CheckReminders

-----------------------------------------------------------------------------
(* Properties of the constraint rules and of the PreToolUse hook *)

\* The order of the rules as the claim lists it for each tool.
ListedOrder(tool_name) ==
    IF tool_name \in {"Edit", "Write"}
    THEN << "line_limit", "no_tabs", "no_hardcoded_path", "snake_case_naming" >>
    ELSE IF tool_name = "Bash"
    THEN << "no_backslash_path", "no_powershell", "no_bash_file_ops" >>
    ELSE << >>

\* The same order with the naming rule listed for Write only.
ListedOrderNamingOnWrite(tool_name) ==
    IF tool_name = "Edit" THEN << "line_limit", "no_tabs", "no_hardcoded_path" >>
    ELSE ListedOrder(tool_name)

\* The check of the rule does not pass on the inputs of the call.
FailsOn(rule, call, config) ==
    ~RunCheck(rule, ContentOf(call.tool_name, call.tool_input),
              FilePathOf(call.tool_name, call.tool_input),
              CommandOf(call.tool_name, call.tool_input), config.rules[rule])

\* The positions of the order whose rule is enabled and fails on the call.
FailingAt(order, call, config) ==
    { k \in 1..Len(order) :
        config.enabled /\ config.rules[order[k]].enabled /\ FailsOn(order[k], call, config) }

\* The result the hook got from check_constraints is the one of the first
\* failing enabled rule of the order, and no later and no disabled rule was
\* evaluated; with no such rule the call is allowed.
FirstFailureWins(order) ==
    LET call == pre.call
        config == pre.constraints_config
        r == pre.out.result
        failing == FailingAt(order, call, config)
        evaluated == { r.evaluated[k] : k \in 1..Len(r.evaluated) }
    IN  /\ \A rule \in evaluated :
              /\ config.enabled /\ config.rules[rule].enabled
              /\ \E k \in 1..Len(order) : order[k] = rule
        /\ IF failing = {}
           THEN r.allowed /\ r.message = NoneVal /\ r.action = NoneVal
           ELSE LET first == CHOOSE k \in failing : \A j \in failing : k <= j
                    rule == order[first]
                IN  /\ ~r.allowed
                    /\ r.message =
                         CheckMessage(rule, ContentOf(call.tool_name, call.tool_input),
                                      FilePathOf(call.tool_name, call.tool_input),
                                      CommandOf(call.tool_name, call.tool_input),
                                      config.rules[rule])
                    /\ r.action =
                         CheckAction(rule, ContentOf(call.tool_name, call.tool_input),
                                     FilePathOf(call.tool_name, call.tool_input),
                                     config.rules[rule])
                    /\ \A k \in (first + 1)..Len(order) : order[k] \notin evaluated

\* C19 as stated: check_constraints evaluates the enabled rules in the order
\* line_limit, no_tabs, no_hardcoded_path, snake_case_naming for Edit and
\* Write, and no_backslash_path, no_powershell, no_bash_file_ops for Bash; it
\* returns the message and severity of the first failing enabled rule
\* without evaluating later rules, and a disabled rule or a disabled
\* constraints block never fails the action.
C19_EvaluationOrder ==
    (pre.pc = "exited" /\ pre.out.checked) => FirstFailureWins(ListedOrder(pre.call.tool_name))

\* C19, corrected: the same, with snake_case_naming evaluated for Write only,
\* so that the rules of an Edit are line_limit, no_tabs and no_hardcoded_path.
C19_EvaluationOrderNamingOnWrite ==
    (pre.pc = "exited" /\ pre.out.checked)
        => FirstFailureWins(ListedOrderNamingOnWrite(pre.call.tool_name))

\* C19 witness: an edit that fails both line_limit and no_tabs, both enabled,
\* came back with the line_limit failure and without no_tabs being evaluated.
C19_Witness ==
    /\ pre.pc = "exited" /\ pre.out.checked
    /\ pre.call = EditLongWithTab
    /\ {1, 2} \subseteq FailingAt(ListedOrder("Edit"), pre.call, pre.constraints_config)
    /\ ~pre.out.result.allowed
    /\ pre.out.result.evaluated = << "line_limit" >>

\* The severity of the first failing enabled rule of the call, NoneVal when
\* no enabled rule fails.
FailingSeverity ==
    LET call == pre.call
        config == pre.constraints_config
        order == ListedOrderNamingOnWrite(call.tool_name)
        failing == FailingAt(order, call, config)
    IN  IF failing = {} THEN NoneVal
        ELSE LET rule == order[CHOOSE k \in failing : \A j \in failing : k <= j]
             IN  CheckAction(rule, ContentOf(call.tool_name, call.tool_input),
                             FilePathOf(call.tool_name, call.tool_input), config.rules[rule])

\* The configuration has the constraints enabled and no_tabs, and only
\* no_tabs, enabled with action block.
OnlyNoTabsBlocks ==
    /\ pre.constraints_config.enabled
    /\ \A rule \in RuleNames : pre.constraints_config.rules[rule].enabled <=> rule = "no_tabs"
    /\ pre.constraints_config.rules["no_tabs"].action = "block"

\* C20: in the pre-action hook a failing rule with severity block gives a
\* deny decision and exit status 1; a failing rule with severity warn or
\* remind adds an annotation and the action is still allowed with exit
\* status 0. With no_tabs set to block, an edit of a .py file whose new
\* content has a tab is denied and the same edit of a .txt file is allowed.
C20_SeverityGating ==
    pre.pc = "exited" =>
        /\ FailingSeverity = "block" => pre.out.decision = "deny" /\ pre.out.exit_code = 1
        /\ FailingSeverity \in {"warn", "remind"} =>
              /\ pre.out.decision # "deny" /\ pre.out.exit_code = 0
              /\ \E k \in 1..Len(pre.out.context) :
                    \/ StartsWith(pre.out.context[k], "[WARN] ")
                    \/ StartsWith(pre.out.context[k], "[REMIND] ")
        /\ (OnlyNoTabsBlocks /\ pre.call = EditPyWithTab) =>
              pre.out.decision = "deny" /\ pre.out.exit_code = 1
        /\ (OnlyNoTabsBlocks /\ pre.call = EditTxtWithTab
            /\ handle_confirm_before_modify("Edit", pre.start_config) # "deny") =>
              pre.out.decision # "deny" /\ pre.out.exit_code = 0

\* The configuration with the part the malformation affects switched off:
\* the one rule, or the whole block.
WithoutAffected(config, malformed) ==
    IF malformed.kind = "rule_not_mapping"
    THEN [config EXCEPT !.rules[malformed.rule].enabled = FALSE]
    ELSE IF malformed.kind = "bad_regex"
    THEN [config EXCEPT !.rules["no_hardcoded_path"].enabled = FALSE]
    ELSE [config EXCEPT !.enabled = FALSE]

\* C21: when the constraints configuration or the tool input is malformed
\* the affected rule counts as disabled for the call: the pre-action hook
\* ends as it would with that rule switched off, normally and without a
\* denial caused by the malformed part.
C21_MalformedInputIsRuleDisabled ==
    (pre.pc = "exited" /\ pre.focus_session_active /\ pre.malformed # WellFormed) =>
        LET expected == PreMain(TRUE, pre.call,
                                WithoutAffected(pre.constraints_config, pre.malformed),
                                pre.start_config)
        IN  /\ pre.out.exit_code = 1 => pre.out.decision = "deny"
            /\ pre.malformed.kind # "tool_input_not_mapping" =>
                  /\ pre.out.decision = expected.decision
                  /\ pre.out.exit_code = expected.exit_code
                  /\ pre.out.context = expected.context

-----------------------------------------------------------------------------
(* Properties of one hook process *)

Exited == proc.pc = "exited"

Printed(kind) == \E i \in 1..Len(proc.out.stdout) : proc.out.stdout[i] = kind

\* C22: on every path of a hook invocation exactly one JSON object is
\* written to standard output, and a deny or fatal object is never preceded
\* or followed by a second object.
C22_SingleOutputObject ==
    Exited =>
        /\ Len(proc.out.stdout) = 1
        /\ (Printed("deny") \/ Printed("fatal")) => Len(proc.out.stdout) <= 1

\* C23: a hook invocation ends with status 1 only after a deny decision,
\* with status 2 only after the fatal block response, and with status 0 in
\* every other case.
C23_ExitStatusProtocol ==
    Exited =>
        /\ proc.out.exit_code \in {0, 1, 2}
        /\ proc.out.exit_code = 1 => Printed("deny")
        /\ proc.out.exit_code = 2 => Printed("fatal")
        /\ (~Printed("deny") /\ ~Printed("fatal")) => proc.out.exit_code = 0

\* The file behind each state a process loads.
FileOf(in, name) ==
    CASE name = "counter" -> in.counter_file
      [] name = "failure_counts" -> in.failure_file
      [] name = "confirm_state" -> in.confirm_file

\* C24: loading an absent state file yields the empty value and is no
\* error; a state file that exists but does not parse is never replaced by
\* the empty value: the invocation aborts with the fatal block response and
\* exit status 2.
C24_StateFileLoading ==
    Exited =>
        \A name \in StateFiles :
            /\ (FileOf(proc.in, name) = "absent" /\ proc.out.loaded[name] # "unread") =>
                   proc.out.loaded[name] = "default"
            /\ FileOf(proc.in, name) = "corrupt" =>
                   \/ proc.out.loaded[name] = "unread"
                   \/ /\ proc.out.loaded[name] # "default"
                      /\ Printed("fatal")
                      /\ proc.out.exit_code = 2

\* The hook_type of the record each hook hands to record_operation.
HookTypeOf(hook_arg) ==
    CASE hook_arg = "pre" -> "PreToolUse"
      [] hook_arg = "post" -> "PostToolUse"
      [] hook_arg = "user" -> "UserPromptSubmit"
      [] hook_arg = "stop" -> "Stop"

\* C26: every invocation of type PreToolUse, PostToolUse, UserPromptSubmit
\* or Stop that receives stdin data appends exactly one record carrying that
\* hook type to the operation log.
C26_OperationRecording ==
    (Exited /\ proc.in.hook \in {"pre", "post", "user", "stop"} /\ proc.in.stdin) =>
        proc.out.recorded = <<HookTypeOf(proc.in.hook)>>

-----------------------------------------------------------------------------
(* Properties of the current-session resolution *)

\* The text read from the marker file, stripped; "" when there is no file or
\* it cannot be read.
MarkerContent ==
    IF dsr.marker \in {NoneVal, MarkerUnreadable} THEN "" ELSE Strip(dsr.marker)

\* The positions of the log whose record parses and carries a session id.
WithSession == {i \in 1..Len(dsr.log) : dsr.log[i].valid /\ dsr.log[i].session_id # NoneVal}

\* The session the four sources name, by priority.
ExpectedCurrent ==
    IF dsr.env # "" THEN dsr.env
    ELSE IF MarkerContent # "" THEN MarkerContent
    ELSE IF WithSession # {}
    THEN dsr.log[CHOOSE i \in WithSession : \A j \in WithSession : j <= i].session_id
    ELSE ""

-----------------------------------------------------------------------------
(* Properties of overlapping appends to the operation log *)

\* The log the invocations started from.
BaseLog == log_inodes[1]

\* The invocations whose rename has happened.
Renamed == {i \in Hooks : hook[i].pc = "done"}

\* C27: in every reachable state of the operation log, also after
\* overlapping hook invocations, the records appear in non-decreasing
\* timestamp order.
C27_LogOrder ==
    \A i, j \in 1..Len(LogNow) : i < j => LogNow[i].ts <= LogNow[j].ts

\* C28: after overlapping appends the log is the base log followed by whole
\* records of invocations that have renamed, each at most once and nothing
\* else; and when two invocations read the same content, the log after both
\* renames holds that content plus exactly one of the two records.
C28_LostUpdateNoCorruption ==
    /\ Len(LogNow) >= Len(BaseLog)
    /\ SubSeq(LogNow, 1, Len(BaseLog)) = BaseLog
    /\ \A k \in (Len(BaseLog) + 1)..Len(LogNow) :
          /\ \E i \in Renamed : LogNow[k] = hook[i].record
          /\ \A l \in (Len(BaseLog) + 1)..Len(LogNow) : LogNow[l] = LogNow[k] => l = k
    /\ \A i, j \in Renamed :
          (i # j /\ hook[i].existing = hook[j].existing /\ Renamed = Hooks) =>
              \E w \in {i, j} : LogNow = Append(hook[i].existing, hook[w].record)

\* Both invocations read the same base log and both renamed: one of the
\* two records is lost.
C28_Witness ==
    /\ Renamed = Hooks
    /\ Len(BaseLog) > 0
    /\ \A i \in Hooks : hook[i].existing = BaseLog
    /\ Len(LogNow) = Len(BaseLog) + 1
    /\ \E i \in Hooks : ~(\E k \in 1..Len(LogNow) : LogNow[k] = hook[i].record)

-----------------------------------------------------------------------------
(* Properties of the reminder state *)

\* The files the configuration watches, and the entry of each.
Watched ==
    IF rem.config.enabled
    THEN {rem.config.files[k].file : k \in 1..Len(rem.config.files)} ELSE {}
EntryOf(f) == rem.config.files[CHOOSE k \in 1..Len(rem.config.files) : rem.config.files[k].file = f]

Returned(f) == \E k \in 1..Len(rem.results) : rem.results[k] = f

\* The reminder of f was due in the last call: never reminded before, or
\* by its mode enough minutes since the last reminder or enough turns.
DueInLastCall(f) ==
    LET e == EntryOf(f)
        b == rem.before[f]
        minutes == IF e.time_minutes = Missing THEN TimeMinutesDefault ELSE e.time_minutes
        limit == IF e.turns = Missing THEN TurnsDefault ELSE e.turns
        by_time == e.mode \in {"time", "both", NoneVal} /\
                   rem.current_time - b.last_reminder_time >= 60 * minutes
        by_turns == e.mode \in {"turns", "both", NoneVal} /\ b.turns_since_reminder + 1 >= limit
    IN  b.last_reminder_time = 0 \/ by_time \/ by_turns

\* C29 as stated: turns_since_reminder is set to 0 exactly in the calls in
\* which the reminder of the file is returned to the caller and otherwise
\* increases by exactly 1, and last_reminder_time never decreases.
C29_ResetExactlyWhenReturned ==
    rem.calls > 0 =>
        \A f \in Watched :
            /\ Returned(f) <=> rem.state[f].turns_since_reminder = 0
            /\ ~Returned(f) =>
                   rem.state[f].turns_since_reminder = rem.before[f].turns_since_reminder + 1
            /\ rem.state[f].last_reminder_time >= rem.before[f].last_reminder_time

\* C29: with each watched file listed once, turns_since_reminder is set to
\* 0 (and last_reminder_time to the time of the call) exactly in the calls
\* in which the reminder of the file is due, whether or not the file could
\* be read and returned, and otherwise increases by exactly 1 with
\* last_reminder_time kept; the files returned are the due files that could
\* be read; last_reminder_time never decreases.
C29_ResetExactlyWhenDue ==
    rem.calls > 0 =>
        \A f \in Watched :
            /\ DueInLastCall(f) =>
                   /\ rem.state[f].turns_since_reminder = 0
                   /\ rem.state[f].last_reminder_time = rem.current_time
            /\ ~DueInLastCall(f) =>
                   /\ rem.state[f].turns_since_reminder = rem.before[f].turns_since_reminder + 1
                   /\ rem.state[f].turns_since_reminder > 0
                   /\ rem.state[f].last_reminder_time = rem.before[f].last_reminder_time
            /\ Returned(f) <=> (DueInLastCall(f) /\ rem.available[f] = "present")
            /\ rem.state[f].last_reminder_time >= rem.before[f].last_reminder_time

\* A reminder became due by its turns while the file was missing: nothing
\* was returned and the count was reset.
C29_Witness ==
    /\ rem.calls > 1
    /\ \E f \in Watched :
        /\ rem.before[f].last_reminder_time > 0
        /\ rem.before[f].turns_since_reminder > 0
        /\ DueInLastCall(f)
        /\ rem.available[f] = "missing"
        /\ ~Returned(f)
        /\ rem.state[f].turns_since_reminder = 0
        /\ rem.state[f].last_reminder_time > rem.before[f].last_reminder_time

-----------------------------------------------------------------------------
(* Properties of the checkpoint with a failing classifier *)

ClassifierFails(sid) == ckpt.use_haiku /\ ckpt.classifier[sid] \in {"unavailable", "raises", "empty"}

\* The sessions the run has to process: those of the mode that have a
\* transcript, oldest first.
ToProcess == SessionsForMode(get_sessions_to_process(ckpt.before), ckpt.mode)

\* The number of entries of the pending issues that carry session sid.
IssuesOf(sid) ==
    Cardinality({k \in 1..Len(ckpt.pending_issues) : ckpt.pending_issues[k] = sid})

\* C30: when the omission classifier is unavailable or raises, its result is
\* the inline string "ERROR: ...", no exception propagates, and the
\* checkpoint still records the detected failures, prunes the processed
\* sessions from the operation log and completes: the run is never ended by
\* an exception and every step up to the end of the prune can be taken.
C30_ClassifierFailureDoesNotBlock ==
    /\ ckpt.pc \in {"start", "prune", "open", "write", "done", "exit"}
    /\ ckpt.pc = "open" => log_target # 0
    /\ ckpt.pc \in {"prune", "open", "write", "done"} =>
          /\ \A sid \in Sessions : InList(sid, ckpt.processed_sids) <=> InList(sid, ToProcess)
          /\ \A sid \in Sessions :
                (InList(sid, ckpt.processed_sids) /\ ClassifierFails(sid)) =>
                    \E k \in 1..Len(ckpt.omission_results) :
                        /\ ckpt.omission_results[k][1] = sid
                        /\ StartsWith(ckpt.omission_results[k][2], "ERROR: ")
          /\ \A sid \in Sessions :
                InList(sid, ckpt.processed_sids) =>
                    IssuesOf(sid) = IF ckpt.dry_run THEN 0 ELSE ckpt.errors[sid]
    /\ (ckpt.pc = "done" /\ ~ckpt.dry_run) =>
          \A sid \in Sessions : InList(sid, ckpt.processed_sids) => CountOf(LogNow, sid) = 0

\* A checkpoint completed although the classifier raised for one session
\* and was unavailable for another: both errors are inline, the failures are
\* recorded and the sessions pruned.
C30_Witness ==
    /\ ckpt.pc = "done"
    /\ ~ckpt.dry_run
    /\ ckpt.use_haiku
    /\ ckpt.classifier["abc"] = "raises"
    /\ ckpt.classifier["def"] = "unavailable"
    /\ ckpt.errors["abc"] = 1
    /\ ckpt.processed_sids = <<"abc", "def">>
    /\ ckpt.omission_results = <<<<"abc", "ERROR: Connection error.">>,
                                 <<"def", "ERROR: anthropic module not installed">>>>
    /\ ckpt.pending_issues = <<"abc">>
    /\ CountOf(LogNow, "abc") = 0 /\ CountOf(LogNow, "def") = 0
    /\ CountOf(LogNow, "xyz") = 1

-----------------------------------------------------------------------------
(* Properties of the prune's writes *)

\* The log as the run found it: in a run alone nothing else writes.
LogUntouched == log_target = 0 \/ (log_inodes[log_target] \in written /\ ckpt.next = 0)

\* The number of records of ops whose session is in the list sids.
RecordsOf(ops, sids) ==
    Cardinality({i \in 1..Len(ops) : InList(ops[i].session_id, sids)})

\* C31: remove_processed_sessions rewrites the operation log only when at
\* least one record was removed and dry-run is off; in dry-run mode the
\* checkpoint computes the same original, removed and remaining counts and
\* leaves the operation log and the pending issues unchanged.
C31_PruneWriteDiscipline ==
    /\ ckpt.pc \in {"open", "write"} => (~ckpt.dry_run /\ ckpt.result.removed > 0)
    /\ (ckpt.pc = "done" /\ log_target # 0) =>
          /\ ckpt.result.original = Len(ckpt.before)
          /\ ckpt.result.removed = RecordsOf(ckpt.before, ckpt.processed_sids)
          /\ ckpt.result.remaining = ckpt.result.original - ckpt.result.removed
          /\ (ckpt.dry_run \/ ckpt.result.removed = 0) =>
                (LogUntouched /\ LogNow = ckpt.before)
    /\ ckpt.dry_run =>
          /\ LogUntouched
          /\ ckpt.pending_issues = << >>

\* A dry run of main found a failed operation and records to remove, and
\* changed neither the log nor the pending issues.
C31_Witness ==
    /\ ckpt.pc = "done"
    /\ ckpt.dry_run
    /\ ckpt.mode = "silent"
    /\ ckpt.total_errors > 0
    /\ ckpt.pending_issues = << >>
    /\ ckpt.result.removed > 0
    /\ ckpt.result.remaining > 0
    /\ LogNow = ckpt.before
    /\ Len(LogNow) = ckpt.result.original

-----------------------------------------------------------------------------
(* Properties of a save that fails *)

\* The destination holds a complete value: the one it had before the saves
\* or the value of a save that returned.
DestinationComplete ==
    \/ target = 0 /\ \A i \in Savers : saver[i].pc # "returned"
    \/ target = 1 /\ inodes[1] = Dump(PriorValue)
    \/ \E i \in Savers :
          /\ target = TmpInode(i)
          /\ saver[i].pc = "returned"
          /\ inodes[target] = Dump(saver[i].data)

\* C32: when atomic_write_json fails after the temp file was created, in the
\* serialisation or in the rename, its temp file is gone and the destination
\* still holds a complete earlier content; on success the parent directory
\* exists and the destination holds the new content (or that of a save that
\* renamed after it); a temp file in the directory belongs to a save still
\* under way.
C32_SaveCleanup ==
    /\ \A i \in Savers :
          /\ saver[i].pc = "raised" =>
                /\ TmpInode(i) \notin tmp_names
                /\ target # TmpInode(i)
                /\ DestinationComplete
          /\ saver[i].pc = "returned" =>
                /\ dir_exists
                /\ TmpInode(i) \notin tmp_names
                /\ DestinationComplete
                /\ target # 0 /\ target # 1
                /\ (\A j \in Savers \ {i} : saver[j].pc # "returned") =>
                      (target = TmpInode(i) /\ Parse(inodes[target]) = saver[i].data)
    /\ \A n \in tmp_names : \E i \in Savers : n = TmpInode(i) /\ saver[i].pc \in {"dump", "replace"}

\* One save failed in its rename after writing its whole temp file while
\* the other succeeded: no temp file is left and the destination holds the
\* other value.
C32_Witness ==
    /\ tmp_names = {}
    /\ \E i, j \in Savers :
          /\ saver[i].pc = "raised"
          /\ saver[i].written = Len(Dump(saver[i].data))
          /\ inodes[TmpInode(i)] = Dump(saver[i].data)
          /\ saver[j].pc = "returned"
          /\ target = TmpInode(j)
          /\ Parse(inodes[target]) = saver[j].data
          /\ saver[j].data # saver[i].data

(***************************************************************************)
(* Properties of the end of the scan                                       *)
(***************************************************************************)

\* The budget of the scan is exhausted: remaining <= 0 inside the loop.
Exhausted == fx.pc = "loop" /\ fx.remaining <= 0

\* C33: the newest-to-oldest scan ends as soon as the remaining budget is
\* exhausted: from a state of the loop with remaining <= 0 the next step
\* ends the scan, and no older turn is examined (the position does not move
\* to an older line), retained or added to the skipped count.
C33_BudgetExhaustionStop ==
    [][Exhausted =>
          /\ fx'.skipped = fx.skipped
          /\ fx'.entries = fx.entries
          /\ fx'.pc = "returned" \/ fx'.pos = 0]_vars

(***************************************************************************)
(* Properties of the current session in the two workflows                  *)
(***************************************************************************)

\* The session current_session_id resolves to for the run: the override,
\* then the marker, then the last record of the log the run loaded.
ResolvedForRun == get_current_session_id(ckpt.env, ckpt.marker, ckpt.operations)

\* The workflow has chosen the sessions it processes and prunes.
Chosen == ckpt.pc \in {"prune", "open", "write", "done", "exit"}

\* C34: for every override, marker and log, the session the current session
\* id resolves to is not among the sessions processed and pruned, in the
\* checkpoint workflow and in the done workflow alike.
C34_CurrentNeverPruned ==
    Chosen => ~InList(ResolvedForRun, ckpt.processed_sids)

(***************************************************************************)
(* Properties of overlapping post hook invocations                         *)
(***************************************************************************)

\* Every invocation that started has completed.
AllCompleted == \A i \in Strikers : striker[i].pc \in {"idle", "done"}

\* The invocation for key k that completed last.
LastFor(k, i) ==
    /\ striker[i].pc = "done"
    /\ striker[i].op_key = k
    /\ striker[i].at = Len(observed[k])

\* C35: for any interleaving of post hook invocations, once all have
\* completed the count stored for every key is the number of failures
\* observed for it since its last success, and the stored entry of a key is
\* the one its own last invocation left (no invocation for another key lost
\* or brought back an entry).
C35_OverlappingStrikes ==
    (striker # << >> /\ AllCompleted) =>
        \A k \in OpKeys :
            /\ StoredCount(k) = TrailingFailures(observed[k])
            /\ \A i \in Strikers :
                LastFor(k, i) => EntryIn(failure_counts, k) = striker[i].left

(***************************************************************************)
(* Properties of the order of the budget limits                            *)
(***************************************************************************)

\* C36: in dual-source recovery the budget_limit given to a session is
\* greater than or equal to the budget_limit given to every session
\* processed after it (every older session), for every usage, decay factor
\* and floor.
C36_NewestGetMore ==
    \A a, b \in 1..Len(dsr.session_results) :
        a < b => dsr.session_results[a].budget_limit >= dsr.session_results[b].budget_limit

(***************************************************************************)
(* Properties of the pre hook without a focus session                      *)
(***************************************************************************)

\* C37: every PreToolUse invocation with stdin data evaluates the
\* configured constraints, and denies on a failing rule with action block,
\* whether or not the focus context file exists; without a focus session
\* only the rest of the pre processing is skipped.
C37_ConstraintsRegardless ==
    pre.pc = "exited" =>
        /\ pre.out.checked
        /\ pre.out.result = check_constraints(pre.call.tool_name, pre.call.tool_input,
                                              pre.constraints_config)
        /\ (~pre.focus_session_active /\ FailingSeverity = "block") =>
              pre.out.decision = "deny" /\ pre.out.exit_code = 1

(***************************************************************************)
(* Properties of the confirmation state                                    *)
(***************************************************************************)

\* The files of a list.
FilesOf(list) == { list[i] : i \in 1..Len(list) }

\* The classifier answered YES: its reply, stripped, starts with YES in any
\* letter case.
AnsweredYes(outcome) ==
    outcome \in AnswerTexts /\ Take(Upper(Strip(outcome)), 3) = "YES"

\* C38: confirmed_files is emptied by every UserPromptSubmit hook, gains a
\* file only when the classifier answered YES for it and loses none
\* otherwise; an edit of a file of the set is allowed without the
\* classifier being consulted; a classifier that is unavailable or fails
\* allows the edit and adds nothing; a deny with exit status 1 comes only
\* from a classifier that answered that the file is not confirmed.
C38_ConfirmationStateMachine ==
    LET last == conf.last
        now == FilesOf(conf.confirmed_files)
        before == FilesOf(conf.last.before)
    IN  /\ last.hook = "user" => now = {}
        /\ last.hook = "pre" =>
            /\ before \subseteq now
            /\ now \ before \subseteq {last.current_file}
            /\ now # before => AnsweredYes(last.outcome)
            /\ last.current_file \in before =>
                  ~last.consulted /\ last.decision = "none" /\ last.exit_code = 0
            /\ last.outcome \in {"unavailable", "raises", "empty"} =>
                  last.decision = "none" /\ last.exit_code = 0 /\ now = before
            /\ last.decision = "deny" =>
                  /\ last.exit_code = 1
                  /\ last.outcome \in AnswerTexts /\ ~AnsweredYes(last.outcome)

(***************************************************************************)
(* Properties of repeated interactive checkpoint runs                      *)
(***************************************************************************)

\* The position of the first record of session sid in ops.
FirstIndex(ops, sid) ==
    CHOOSE i \in 1..Len(ops) :
        /\ ops[i].session_id = sid
        /\ \A j \in 1..(i - 1) : ops[j].session_id # sid

\* The session of S that appears first in ops.
OldestOf(ops, S) ==
    CHOOSE sid \in S : \A other \in S : FirstIndex(ops, sid) <= FirstIndex(ops, other)

\* The non-current sessions of a log.
NonCurrent(ops) == SessionIdsIn(ops) \ {LastSessionId(ops)}

\* The non-current sessions of a log whose transcript exists in the project
\* directory.
WithTranscript(ops) == IF project_dir THEN NonCurrent(ops) \cap transcripts ELSE {}

\* The run has gone past the choice of the session and on to the prune.
Pruning == ckpt.pc \in {"prune", "open", "write", "done"}

\* What a run does when the sessions it may take are those of Candidates: it
\* takes the oldest one alone and, at its end, the log holds every record
\* but those of that session; with no candidate it reports that there is
\* nothing to process.
RunTakesOldest(Candidates(_), prunes) ==
    /\ Pruning =>
        /\ Candidates(ckpt.operations) # {}
        /\ ckpt.processed_sids = <<OldestOf(ckpt.operations, Candidates(ckpt.operations))>>
    /\ ckpt.pc = "exit" =>
        /\ Len(ckpt.operations) > 0 => Candidates(ckpt.operations) = {}
        /\ ckpt.processed_sids = << >>
    /\ (ckpt.pc = "done" /\ prunes) =>
        LogNow = SelectSeq(ckpt.operations,
                           LAMBDA op : op.session_id # ckpt.processed_sids[1])

PruneAndAppendCompleted(i) ==
    /\ ckpt.pc = "done"
    /\ Len(ckpt.processed_sids) > 0
    /\ hook[i].pc = "done"
    /\ \A j \in Hooks \ {i} : hook[j].pc = "start"

\* C40: when a hook append for the current session overlaps a checkpoint
\* prune of session S, then after both have completed the log contains the
\* appended record and no record of S.
C40_PruneRacingAppend ==
    \A i \in Hooks :
        PruneAndAppendCompleted(i) =>
            /\ InList(hook[i].record, LogNow)
            /\ \A k \in 1..Len(LogNow) :
                  ~InList(LogNow[k].session_id, ckpt.processed_sids)

-----------------------------------------------------------------------------
(* Specifications: one per part, the other parts idle *)

StrikeIdle ==
    /\ failure_counts = << >>
    /\ max_strikes = MAX_STRIKES_DEFAULT
    /\ observed = << >>
    /\ last_post = << >>
    /\ posts = 0
    /\ striker = << >>
    /\ conf = << >>

InitStrikes == StrikeInit /\ StoreIdle /\ LogIdle /\ RecoverIdle /\ ConstraintIdle /\ ProcessIdle /\ ReminderIdle
SpecStrikes == InitStrikes /\ [][StrikeNext]_vars

InitStore == StoreInit /\ StrikeIdle /\ LogIdle /\ RecoverIdle /\ ConstraintIdle /\ ProcessIdle /\ ReminderIdle
SpecStore == InitStore /\ [][StoreNext]_vars

InitCheckpoint == CheckpointInit /\ StrikeIdle /\ StoreIdle /\ RecoverIdle /\ ConstraintIdle /\ ProcessIdle /\ ReminderIdle
SpecCheckpoint == InitCheckpoint /\ [][CkptNext]_vars

InitWorkflow == WorkflowInit /\ StrikeIdle /\ StoreIdle /\ RecoverIdle /\ ConstraintIdle /\ ProcessIdle /\ ReminderIdle
SpecWorkflow == InitWorkflow /\ [][WorkflowNext]_vars

InitOverlap == OverlapInit /\ StoreIdle /\ LogIdle /\ RecoverIdle /\ ConstraintIdle /\ ProcessIdle /\ ReminderIdle
SpecOverlap == InitOverlap /\ [][OverlapNext]_vars

InitConfirm == ConfirmInit /\ StoreIdle /\ LogIdle /\ RecoverIdle /\ ConstraintIdle /\ ProcessIdle /\ ReminderIdle
SpecConfirm == InitConfirm /\ [][ConfirmNext]_vars

InitInteractive == InteractiveInit /\ StrikeIdle /\ StoreIdle /\ RecoverIdle /\ ConstraintIdle /\ ProcessIdle /\ ReminderIdle
SpecInteractive == InitInteractive /\ [][InteractiveNext]_vars /\ WF_vars(InteractiveNext)

InitLogRace == RaceInit /\ StrikeIdle /\ StoreIdle /\ RecoverIdle /\ ConstraintIdle /\ ProcessIdle /\ ReminderIdle
SpecLogRace == InitLogRace /\ [][RaceNext]_vars

InitExtract == ExtractInit /\ StrikeIdle /\ StoreIdle /\ LogIdle /\ ConstraintIdle /\ ProcessIdle /\ ReminderIdle
SpecExtract == InitExtract /\ [][ExtractNext]_vars

InitAlloc == AllocInit /\ StrikeIdle /\ StoreIdle /\ LogIdle /\ ConstraintIdle /\ ProcessIdle /\ ReminderIdle
SpecAlloc == InitAlloc /\ [][AllocNext]_vars

InitConstraints ==
    ConstraintInit /\ StrikeIdle /\ StoreIdle /\ LogIdle /\ RecoverIdle /\ ProcessIdle /\ ReminderIdle
SpecConstraints == InitConstraints /\ [][ConstraintNext]_vars

InitMalformed ==
    MalformedInit /\ StrikeIdle /\ StoreIdle /\ LogIdle /\ RecoverIdle /\ ProcessIdle /\ ReminderIdle
SpecMalformed == InitMalformed /\ [][ConstraintNext]_vars

InitAppendRace == AppendInit /\ StrikeIdle /\ StoreIdle /\ RecoverIdle /\ ConstraintIdle /\ ProcessIdle /\ ReminderIdle
SpecAppendRace == InitAppendRace /\ [][AppendNext]_vars

InitClassifier ==
    ClassifierInit /\ StrikeIdle /\ StoreIdle /\ RecoverIdle /\ ConstraintIdle /\ ProcessIdle
        /\ ReminderIdle
SpecClassifier == InitClassifier /\ [][CkptNext]_vars

InitReminders ==
    ReminderInit /\ StrikeIdle /\ StoreIdle /\ LogIdle /\ RecoverIdle /\ ConstraintIdle
        /\ ProcessIdle
SpecReminders == InitReminders /\ [][ReminderNext]_vars

InitProcess ==
    ProcessInit /\ StrikeIdle /\ StoreIdle /\ LogIdle /\ RecoverIdle /\ ConstraintIdle
        /\ ReminderIdle
SpecProcess == InitProcess /\ [][ProcessNext]_vars

Init == StrikeInit /\ StoreInit /\ RaceInit /\ AllocInit /\ ConstraintIdle /\ ProcessIdle /\ ReminderIdle

Next == StrikeNext \/ StoreNext \/ RaceNext \/ AllocNext

Spec == Init /\ [][Next]_vars

=============================================================================
